---- MODULE Spec2Model ----
(***************************************************************************)
(* Model of embedding-generation/generate-chunks.py: the markdown          *)
(* splitter obtainTextSnippets__Markdown, the chunk ledger                 *)
(* chunkSaveAndTrack/recordChunk and the initialisation done by main.      *)
(*                                                                         *)
(* A text is a sequence of tokens.  A token is either the newline NL or a  *)
(* word; a word is a non-empty sequence of atoms.  A positive atom n is    *)
(* the n-th plain word of the input document, a negative atom -k is a run  *)
(* of k '#' characters.  Two neighbouring words of a text are separated by *)
(* one blank; a word of several atoms is what Python's string "+" makes    *)
(* of two words that meet without white space between them.  The token SP  *)
(* is the run of blanks that indents a line.                               *)
(***************************************************************************)
EXTENDS Integers, Sequences, FiniteSets, TLC

\* ------------------------------------------------------------- bounds
MaxLines == 5
MaxChunks == 3
MaxDays == 2
MaxRuns == 2
MaxCalls == 3
MaxKeywords == 3
MaxTermLen == 1
MaxNotes == 2
MaxSources == 2

\* ------------------------------------------------------------- texts
NL == <<>>

\* the blanks at the start of an indented line
SP == <<0>>

\* white space: what str.split() and str.strip() take for a separator
IsSpace(tok) == tok = NL \/ tok = SP

Min(S) == CHOOSE x \in S : \A y \in S : x <= y
Max(S) == CHOOSE x \in S : \A y \in S : x >= y

Last(s) == s[Len(s)]
Front(s) == SubSeq(s, 1, Len(s) - 1)

\* Python's str + str: the last word of a and the first word of b become one
\* word when no white space lies between them.
Cat(a, b) ==
    IF a # <<>> /\ b # <<>> /\ ~IsSpace(Last(a)) /\ ~IsSpace(b[1])
    THEN Front(a) \o <<Last(a) \o b[1]>> \o Tail(b)
    ELSE a \o b

\* the words of a text, in order: text.split()
Words(text) == SelectSeq(text, LAMBDA tok : ~IsSpace(tok))

\* len(text.split())
word_count(text) == Len(Words(text))

\* text.strip()
strip(text) ==
    LET W == {i \in DOMAIN text : ~IsSpace(text[i])}
    IN  IF W = {} THEN <<>> ELSE SubSeq(text, Min(W), Max(W))

\* ------------------------------------------------- split_by_heading
\* (?<=\n)(<k hashes> .+) matches at i: a newline before it, the marker as a
\* word of its own, and at least one more word on the same line.
IsHeadingAt(text, i, k) ==
    /\ i > 1
    /\ i < Len(text)
    /\ text[i - 1] = NL
    /\ text[i] = <<-k>>
    /\ text[i + 1] # NL

\* .+ runs to the end of the line
LineEnd(text, i) ==
    LET E == {j \in i..Len(text) : text[j] = NL}
    IN  IF E = {} THEN Len(text) ELSE Min(E) - 1

RECURSIVE SplitFrom(_, _, _)
SplitFrom(text, k, start) ==
    LET H == {i \in start..Len(text) : IsHeadingAt(text, i, k)}
    IN  IF H = {}
        THEN <<SubSeq(text, start, Len(text))>>
        ELSE LET i == Min(H)
                 j == LineEnd(text, i)
             IN  <<SubSeq(text, start, i - 1), SubSeq(text, i, j)>>
                     \o SplitFrom(text, k, j + 1)

\* re.split with one capturing group: the text between the matches and the
\* matched heading lines alternate
split_by_heading(content, k) == SplitFrom(content, k, 1)

\* chunk.split('\n\n')
RECURSIVE SplitParaFrom(_, _)
SplitParaFrom(text, start) ==
    LET B == {i \in start..(Len(text) - 1) : text[i] = NL /\ text[i + 1] = NL}
    IN  IF B = {}
        THEN <<SubSeq(text, start, Len(text))>>
        ELSE <<SubSeq(text, start, Min(B) - 1)>> \o SplitParaFrom(text, Min(B) + 2)

split_paragraphs(text) == SplitParaFrom(text, 1)

\* re.match('^<k hashes> ', piece.strip())
starts_with_heading(piece, k) ==
    LET s == strip(piece)
    IN  Len(s) >= 2 /\ s[1] = <<-k>> /\ s[2] # NL

\* ----------------------------------------------------- create_chunks
\* A chunk is kept with what the loop knew when it emitted it: the running
\* count, whether a final remainder was merged into it, whether it is itself
\* the final remainder of its pass, whether the test for a heading closed
\* it, and the stage (2, 3, 4 = heading level, 0 = paragraphs) of the pass
\* that emitted it.
NewChunk(text, count, stage) ==
    [text |-> text, count |-> count, merged |-> FALSE, remainder |-> FALSE,
     at_heading |-> FALSE, stage |-> stage]

\* chunks.append(current_chunk.strip())
Flush(st, stage) == Append(st.chunks, NewChunk(strip(st.cur), st.cnt, stage))

\* chunks.append(current_chunk.strip()) under "if re.match(...)"
FlushAtHeading(st, stage) ==
    Append(st.chunks, [NewChunk(strip(st.cur), st.cnt, stage) EXCEPT !.at_heading = TRUE])

\* current_chunk = piece.strip() after a flush on overflow
Restart(piece) == strip(piece)

\* current_chunk += piece + "\n"
AppendPiece(cur, piece) == Cat(cur, piece \o <<NL>>)

\* PieceStep that closes the chunk at every heading, also below min_words
PieceStep_FlushAtEveryHeading(st, piece, k, stage, thr) ==
    LET pwc == word_count(piece)
        st1 == IF starts_with_heading(piece, k) /\ st.cnt >= 1
               THEN [chunks |-> FlushAtHeading(st, stage), cur |-> <<>>, cnt |-> 0]
               ELSE st
    IN  IF st1.cnt + pwc > thr.max_words /\ st1.cnt >= thr.min_words
        THEN [chunks |-> Flush(st1, stage), cur |-> Restart(piece), cnt |-> pwc]
        ELSE [chunks |-> st1.chunks,
              cur |-> AppendPiece(st1.cur, piece),
              cnt |-> st1.cnt + pwc]

\* PieceStep with the overflow test "current_word_count + piece_word_count >
\* max_words" alone, without "and current_word_count >= min_words"
PieceStep_NoMinGuard(st, piece, k, stage, thr) ==
    LET pwc == word_count(piece)
        st1 == IF starts_with_heading(piece, k) /\ st.cnt >= thr.min_words
               THEN [chunks |-> FlushAtHeading(st, stage), cur |-> <<>>, cnt |-> 0]
               ELSE st
    IN  IF st1.cnt + pwc > thr.max_words
        THEN [chunks |-> Flush(st1, stage), cur |-> Restart(piece), cnt |-> pwc]
        ELSE [chunks |-> st1.chunks,
              cur |-> AppendPiece(st1.cur, piece),
              cnt |-> st1.cnt + pwc]

\* one iteration of the loop over content_pieces
PieceStep(st, piece, k, stage, thr) ==
    LET pwc == word_count(piece)
        st1 == IF starts_with_heading(piece, k) /\ st.cnt >= thr.min_words
               THEN [chunks |-> FlushAtHeading(st, stage), cur |-> <<>>, cnt |-> 0]
               ELSE st
    IN  IF st1.cnt + pwc > thr.max_words /\ st1.cnt >= thr.min_words
        THEN [chunks |-> Flush(st1, stage), cur |-> Restart(piece), cnt |-> pwc]
        ELSE [chunks |-> st1.chunks,
              cur |-> AppendPiece(st1.cur, piece),
              cnt |-> st1.cnt + pwc]

RECURSIVE PieceLoop(_, _, _, _, _, _)
PieceLoop(st, pieces, i, k, stage, thr) ==
    IF i > Len(pieces) THEN st
    ELSE PieceLoop(PieceStep(st, pieces[i], k, stage, thr), pieces, i + 1, k, stage, thr)

\* chunks[-1] += "\n" + current_chunk.strip()
MergeRemainder(st) ==
    [st.chunks EXCEPT ![Len(st.chunks)] =
        [@ EXCEPT !.text = @ \o <<NL>> \o strip(st.cur),
                  !.count = @ + st.cnt,
                  !.merged = TRUE]]

\* chunks.append(current_chunk.strip()) after the loop
EmitRemainder(st, stage) ==
    Append(st.chunks, [NewChunk(strip(st.cur), st.cnt, stage) EXCEPT !.remainder = TRUE])

\* LastChunk without the merge: the remainder is always a chunk of its own
LastChunk_NeverMerges(st, stage, thr) ==
    IF strip(st.cur) = <<>> THEN st.chunks ELSE EmitRemainder(st, stage)

\* LastChunk with min_words in the place of min_final_words and the test for
\* an earlier chunk nested: a short remainder without an earlier chunk is lost
LastChunk_MinWordsNested(st, stage, thr) ==
    IF strip(st.cur) = <<>> THEN st.chunks
    ELSE IF st.cnt < thr.min_words
         THEN (IF st.chunks # <<>> THEN MergeRemainder(st) ELSE st.chunks)
         ELSE EmitRemainder(st, stage)

\* LastChunk with the test for an earlier chunk nested: a remainder below
\* min_final_words without an earlier chunk is lost
LastChunk_DropsLoneRemainder(st, stage, thr) ==
    IF strip(st.cur) = <<>> THEN st.chunks
    ELSE IF st.cnt < thr.min_final_words
         THEN (IF st.chunks # <<>> THEN MergeRemainder(st) ELSE st.chunks)
         ELSE EmitRemainder(st, stage)

\* LastChunk without the test "if current_chunk.strip()"
LastChunk_NoEmptyCheck(st, stage, thr) ==
    IF st.cnt < thr.min_final_words /\ st.chunks # <<>>
    THEN MergeRemainder(st)
    ELSE EmitRemainder(st, stage)

\* "Handle the last chunk"
LastChunk(st, stage, thr) ==
    IF strip(st.cur) = <<>> THEN st.chunks
    ELSE IF st.cnt < thr.min_final_words /\ st.chunks # <<>>
         THEN MergeRemainder(st)
         ELSE EmitRemainder(st, stage)

create_chunks(content_pieces, k, stage, thr) ==
    LastChunk(PieceLoop([chunks |-> <<>>, cur |-> <<>>, cnt |-> 0],
                        content_pieces, 1, k, stage, thr),
              stage, thr)

\* ------------------------------------- obtainTextSnippets__Markdown
\* TooLarge with ">=": a chunk of exactly max_words words is split again
TooLarge_AtLeast(chunk, thr) == word_count(chunk.text) >= thr.max_words

\* Is a chunk of the pass of this stage split again ?
TooLarge(chunk, thr) == word_count(chunk.text) > thr.max_words

RECURSIVE Refine(_, _), RefineAll(_, _, _)
\* Refine that calls create_chunks(sub_pieces) without the heading level, so
\* that the pieces of the finer split are grouped with the test for '##'
Refine_DefaultHeadingLevel(chunk, thr) ==
    IF ~TooLarge(chunk, thr) THEN <<chunk>>
    ELSE IF chunk.stage < 4
         THEN RefineAll(create_chunks(split_by_heading(chunk.text, chunk.stage + 1),
                                      2, chunk.stage + 1, thr),
                        1, thr)
         ELSE create_chunks(split_paragraphs(chunk.text), 2, 0, thr)

\* what becomes of one chunk of the pass at heading level chunk.stage
Refine(chunk, thr) ==
    IF ~TooLarge(chunk, thr) THEN <<chunk>>
    ELSE IF chunk.stage < 4
         THEN RefineAll(create_chunks(split_by_heading(chunk.text, chunk.stage + 1),
                                      chunk.stage + 1, chunk.stage + 1, thr),
                        1, thr)
         ELSE create_chunks(split_paragraphs(chunk.text), 2, 0, thr)

RefineAll(chunks, i, thr) ==
    IF i > Len(chunks) THEN <<>>
    ELSE Refine(chunks[i], thr) \o RefineAll(chunks, i + 1, thr)

obtainTextSnippets__Markdown(text, thr) ==
    RefineAll(create_chunks(split_by_heading(text, 2), 2, 2, thr), 1, thr)

\* ------------------------------------------------------------ inputs
LineKinds == {"blank", "w1", "w2", "h2", "h3", "h4"}

PlainWords(kind) == IF kind = "blank" THEN 0 ELSE IF kind = "w2" THEN 2 ELSE 1

\* the tokens of one line; n is the number of the line's first plain word
LineTokens(kind, n) ==
    CASE kind = "blank" -> <<>>
      [] kind = "w1" -> << <<n>> >>
      [] kind = "w2" -> << <<n>>, <<n + 1>> >>
      [] kind = "h2" -> << <<-2>>, <<n>> >>
      [] kind = "h3" -> << <<-3>>, <<n>> >>
      [] kind = "h4" -> << <<-4>>, <<n>> >>
      [] kind = "ih2" -> << SP, <<-2>>, <<n>> >>

RECURSIVE Render(_, _, _)
Render(shape, i, n) ==
    IF i > Len(shape) THEN <<>>
    ELSE (IF i > 1 THEN <<NL>> ELSE <<>>)
             \o LineTokens(shape[i], n)
             \o Render(shape, i + 1, n + PlainWords(shape[i]))

\* Documents as the callers pass them: stripped of leading and trailing white
\* space (obtainMarkdownContentFromGitHubMDFile), possibly empty.
Shapes ==
    {s \in UNION {[1..n -> LineKinds] : n \in 0..MaxLines} :
        Len(s) > 0 => s[1] # "blank" /\ s[Len(s)] # "blank"}

Docs == {Render(s, 1, 1) : s \in Shapes}

\* Documents with indented lines: "ih2" is a line of blanks, '##' and a
\* word.  A stripped document does not begin with one.
ParaKinds == {"blank", "w1", "w2", "h2", "ih2"}

ParaShapes ==
    {s \in UNION {[1..n -> ParaKinds] : n \in 0..MaxLines} :
        Len(s) > 0 => s[1] \notin {"blank", "ih2"} /\ s[Len(s)] # "blank"}

ParaDocs == {Render(s, 1, 1) : s \in ParaShapes}

\* Every caller uses the defaults (min_words, max_words, min_final_words) =
\* (300, 500, 200).  The model scales them down and keeps their order,
\* min_final_words < min_words < max_words.
Triple(mn, mx, mf) == [min_words |-> mn, max_words |-> mx, min_final_words |-> mf]

Thresholds ==
    {Triple(2, 3, 1), Triple(3, 4, 2), Triple(3, 5, 2), Triple(4, 5, 3), Triple(5, 6, 4)}

\* ------------------------------------------------------------ ledger
\* The ledger info/chunk_details.csv is a sequence of rows, a row a sequence
\* of five fields, a field a sequence of string fragments whose concatenation
\* is the field's text.
Digit(d) == <<"0", "1", "2", "3", "4", "5", "6", "7", "8", "9">>[d + 1]

DigitValue(c) == CHOOSE d \in 0..9 : Digit(d) = c

\* str(n) of a natural number: its decimal digits
RECURSIVE str(_)
str(n) == IF n < 10 THEN <<Digit(n)>> ELSE str(n \div 10) \o <<Digit(n % 10)>>

\* int(s) of a string of decimal digits
RECURSIVE int(_)
int(s) ==
    IF Len(s) = 1 THEN DigitValue(s[1])
    ELSE 10 * int(Front(s)) + DigitValue(Last(s))

\* datetime.date.today().strftime('%Y-%m-%d'); the model's days are the
\* first days of one month
strftime(day) == (IF day < 10 THEN <<"2025-01-0">> ELSE <<"2025-01-">>) \o str(day)

\* the header row main writes
Header ==
    << <<"URL">>, <<"Date">>, <<"Number of Words">>, <<"Number of Chunks">>,
       <<"Chunk IDs">> >>

\* str(uuid.uuid4()): the model numbers the identifiers in the order drawn
uuid4(n) == str(n)

\* f'chunk_{chunk.uuid}'
chunk_id_of(chunk) == <<"chunk_">> \o chunk.uuid

\* len(chunk.content.split())
chunk_words_of(chunk) == word_count(chunk.content)

\* addNewRow with a chunk count that starts at 0
addNewRow_ZeroCount(url, current_date, chunk_words, chunk_id) ==
    << <<url>>, current_date, str(chunk_words), <<"0">>, chunk_id >>

addNewRow(url, current_date, chunk_words, chunk_id) ==
    << <<url>>, current_date, str(chunk_words), <<"1">>, chunk_id >>

\* addToExistingRow without "+ 1"
addToExistingRow_KeepsCount(row, chunk_words, chunk_id) ==
    << row[1], row[2], str(int(row[3]) + chunk_words), row[4],
       row[5] \o <<", ">> \o chunk_id >>

\* addToExistingRow that leaves the chunk ids as they are
addToExistingRow_DropsId(row, chunk_words, chunk_id) ==
    << row[1], row[2], str(int(row[3]) + chunk_words), str(int(row[4]) + 1), row[5] >>

addToExistingRow(row, chunk_words, chunk_id) ==
    << row[1],
       row[2],
       str(int(row[3]) + chunk_words),
       str(int(row[4]) + 1),
       row[5] \o <<", ">> \o chunk_id >>

\* recordChunk that stamps an updated row with the current date
recordChunk_Restamps(file, url, chunk, today) ==
    LET current_date == strftime(today)
        chunk_words == chunk_words_of(chunk)
        chunk_id == chunk_id_of(chunk)
        headers == IF file = <<>> THEN <<>> ELSE <<file[1]>>
        url_found == \E i \in 2..Len(file) : file[i][1] = <<url>>
        rows == [i \in 1..(Len(file) - Len(headers)) |->
                    IF file[i + 1][1] = <<url>>
                    THEN [addToExistingRow(file[i + 1], chunk_words, chunk_id)
                              EXCEPT ![2] = current_date]
                    ELSE file[i + 1]]
    IN  headers \o rows
            \o (IF url_found THEN <<>>
                ELSE <<addNewRow(url, current_date, chunk_words, chunk_id)>>)

\* recordChunk that takes every line of the file for a row
recordChunk_NoHeader(file, url, chunk, today) ==
    LET current_date == strftime(today)
        chunk_words == chunk_words_of(chunk)
        chunk_id == chunk_id_of(chunk)
        url_found == \E i \in 1..Len(file) : file[i][1] = <<url>>
        rows == [i \in 1..Len(file) |->
                    IF file[i][1] = <<url>>
                    THEN addToExistingRow(file[i], chunk_words, chunk_id)
                    ELSE file[i]]
    IN  rows \o (IF url_found THEN <<>>
                 ELSE <<addNewRow(url, current_date, chunk_words, chunk_id)>>)

\* recordChunk that appends a new row also when it has updated a row
recordChunk_AlwaysAppends(file, url, chunk, today) ==
    LET current_date == strftime(today)
        chunk_words == chunk_words_of(chunk)
        chunk_id == chunk_id_of(chunk)
        headers == IF file = <<>> THEN <<>> ELSE <<file[1]>>
        rows == [i \in 1..(Len(file) - Len(headers)) |->
                    IF file[i + 1][1] = <<url>>
                    THEN addToExistingRow(file[i + 1], chunk_words, chunk_id)
                    ELSE file[i + 1]]
    IN  headers \o rows \o <<addNewRow(url, current_date, chunk_words, chunk_id)>>

\* recordChunk that puts an updated row behind the rows it leaves alone
recordChunk_MovesUpdatedRow(file, url, chunk, today) ==
    LET current_date == strftime(today)
        chunk_words == chunk_words_of(chunk)
        chunk_id == chunk_id_of(chunk)
        headers == IF file = <<>> THEN <<>> ELSE <<file[1]>>
        url_found == \E i \in 2..Len(file) : file[i][1] = <<url>>
        data == [i \in 1..(Len(file) - Len(headers)) |-> file[i + 1]]
        others == SelectSeq(data, LAMBDA row : row[1] # <<url>>)
        updated == [i \in 1..Len(SelectSeq(data, LAMBDA row : row[1] = <<url>>)) |->
                       addToExistingRow(SelectSeq(data, LAMBDA row : row[1] = <<url>>)[i],
                                        chunk_words, chunk_id)]
    IN  headers \o others \o updated
            \o (IF url_found THEN <<>>
                ELSE <<addNewRow(url, current_date, chunk_words, chunk_id)>>)

\* recordChunk up to "Overwrite csv": the rows it holds in memory after
\* reading the file
recordChunk(file, url, chunk, today) ==
    LET current_date == strftime(today)
        chunk_words == chunk_words_of(chunk)
        chunk_id == chunk_id_of(chunk)
        headers == IF file = <<>> THEN <<>> ELSE <<file[1]>>
        url_found == \E i \in 2..Len(file) : file[i][1] = <<url>>
        rows == [i \in 1..(Len(file) - Len(headers)) |->
                    IF file[i + 1][1] = <<url>>
                    THEN addToExistingRow(file[i + 1], chunk_words, chunk_id)
                    ELSE file[i + 1]]
    IN  headers \o rows
            \o (IF url_found THEN <<>>
                ELSE <<addNewRow(url, current_date, chunk_words, chunk_id)>>)

\* ------------------------------------------------- the file on disk
RECURSIVE SumLen(_, _)
SumLen(seq, i) == IF i > Len(seq) THEN 0 ELSE Len(seq[i]) + SumLen(seq, i + 1)

\* csv.writer quotes a field that holds the delimiter
FieldBytes(field) ==
    SumLen(field, 1) + (IF \E i \in DOMAIN field : field[i] = ", " THEN 2 ELSE 0)

\* what is left of a longer file behind the bytes another writer put over
\* its beginning: n bytes, the torn end of its last row
LeftOver(n) == << <<"left-over bytes">>, str(n) >>

\* five fields, four commas and "\r\n"
RowBytes(row) ==
    IF Len(row) = 2 THEN int(row[2])
    ELSE FieldBytes(row[1]) + FieldBytes(row[2]) + FieldBytes(row[3])
             + FieldBytes(row[4]) + FieldBytes(row[5]) + 6

RECURSIVE FileBytes(_, _)
FileBytes(file, i) ==
    IF i > Len(file) THEN 0 ELSE RowBytes(file[i]) + FileBytes(file, i + 1)

\* the file opened without truncation (mode 'r+')
OpenForWrite_NoTruncate(file) == file

\* open(details_file, mode='w'): the file is truncated
OpenForWrite(file) == <<>>

\* writerows and close: the rows go to the file from offset 0 on; bytes
\* that another writer put behind their end since the open stay
WriteRows(file, new_rows) ==
    IF FileBytes(file, 1) > FileBytes(new_rows, 1)
    THEN new_rows \o <<LeftOver(FileBytes(file, 1) - FileBytes(new_rows, 1))>>
    ELSE new_rows

\* the header row written only to a ledger that is empty
InitializeFiles_KeepsLedger(file) == IF file = <<>> THEN <<Header>> ELSE file

\* main, "Initialize files": the ledger is opened for writing and gets the
\* header row
InitializeFiles(file) == WriteRows(OpenForWrite(file), <<Header>>)

\* the urls and chunk contents the calls are made with
\* (two urls that differ only by a trailing slash are two keys)
Urls == {"a/x", "a/x/"}

Contents == {Render(<<"w2", "w2">>, 1, 1), Render(<<"h2", "w2", "blank", "w2", "w2">>, 1, 1)}

\* ------------------------------------------------------------- state
VARIABLES
    content,       \* splitter: the markdown text passed in
    thr,           \* splitter: min_words, max_words, min_final_words
    final_chunks,  \* splitter: the chunks returned
    pc,            \* splitter: "call", "returned"; "-" in the other specifications
    details_file,  \* the rows of info/chunk_details.csv
    yaml_dir,      \* the uuids of the chunk files in yaml_data
    today,         \* the current day
    main_pc,       \* "idle": no run of main, "running": main after "Initialize files"
    run,           \* the number of runs of main started so far
    drawn,         \* the number of uuids drawn so far
    recorded,      \* history: the calls of chunkSaveAndTrack, in order
    before,        \* history: the ledger before the latest call
    proc,          \* two calls of chunkSaveAndTrack without mutual exclusion
    history,       \* history: the steps of the two calls, in order
    missing,       \* info/chunk_details.csv does not exist
    cross_platform_lps_dont_duplicate,
                   \* the urls of the cross-platform learning paths seen
    calls,         \* history: the calls of processLearningPath, in order
    keywords,      \* Chunk: the keyword list passed to the constructor
    chunk_keywords,\* Chunk: self.keywords
    chunk_pc,      \* Chunk: "call", "created"; "-" in the other specifications
    client_pc,     \* MCP test: "init", "read_init", "send", "wait", "passed",
                   \* "failed"; "-" in the other specifications
    expected_id,   \* MCP test: the id of the request to send or awaited
    stdin,         \* the messages on their way to the server
    stdout,        \* the messages on their way to the test
    pending,       \* MCP server: the ids of the requests it is working on
    notes,         \* MCP server: the notifications it has written
    sent,          \* history: the ids of the requests sent, in order
    answered,      \* history: the responses the server wrote, in order
    got,           \* history: the messages the test took for responses
    pipe           \* chunkizeLearningPath, step by step: the position, the
                   \* sources to come, the url, the text snippets to come
                   \* and the chunk of the source at work

splitVars == <<content, thr, final_chunks, pc>>
ledgerVars == <<details_file, yaml_dir, today, main_pc, run, drawn, recorded, before>>
raceVars == <<proc, history, missing>>
gateVars == <<cross_platform_lps_dont_duplicate, calls>>
keywordVars == <<keywords, chunk_keywords, chunk_pc>>
mcpVars == <<client_pc, expected_id, stdin, stdout, pending, notes, sent, answered, got>>
\* the variables that the splitter, the ledger, the two calls and the gate
\* leave alone
pipeVars == <<pipe>>
otherVars == <<keywordVars, mcpVars, pipeVars>>
vars == <<splitVars, ledgerVars, raceVars, gateVars, otherVars>>

\* the two concurrent calls while they are not looked at
RaceIdle ==
    /\ proc = <<>>
    /\ history = <<>>
    /\ missing = FALSE

\* the process has seen no learning path
GateIdle ==
    /\ cross_platform_lps_dont_duplicate = <<>>
    /\ calls = <<>>

\* no Chunk is looked at
KeywordsIdle ==
    /\ keywords = <<>>
    /\ chunk_keywords = <<>>
    /\ chunk_pc = "-"

\* no MCP server runs
McpIdle ==
    /\ client_pc = "-"
    /\ expected_id = 0
    /\ stdin = <<>>
    /\ stdout = <<>>
    /\ pending = {}
    /\ notes = 0
    /\ sent = <<>>
    /\ answered = <<>>
    /\ got = <<>>

NoChunk == [uuid |-> <<>>, content |-> <<>>]

\* no source is worked on step by step
PipeIdle ==
    pipe = [pc |-> "-", all |-> <<>>, plan |-> <<>>, url |-> "", snippets |-> <<>>,
            chunk |-> NoChunk]

OtherIdle == KeywordsIdle /\ McpIdle /\ PipeIdle

\* the variables of the ledger while the splitter is looked at alone
LedgerIdle ==
    /\ details_file = <<>>
    /\ yaml_dir = {}
    /\ today = 1
    /\ main_pc = "idle"
    /\ run = 0
    /\ drawn = 0
    /\ recorded = <<>>
    /\ before = <<>>

\* the variables of the splitter while the ledger is looked at alone
SplitIdle ==
    /\ content = <<>>
    /\ thr = Triple(3, 5, 2)
    /\ final_chunks = <<>>
    /\ pc = "-"

\* --------------------------------------------------------- splitter
InitSplit ==
    /\ content \in Docs
    /\ thr \in Thresholds
    /\ final_chunks = <<>>
    /\ pc = "call"
    /\ LedgerIdle
    /\ RaceIdle
    /\ GateIdle
    /\ OtherIdle

Split ==
    /\ pc = "call"
    /\ final_chunks' = obtainTextSnippets__Markdown(content, thr)
    /\ pc' = "returned"
    /\ UNCHANGED <<content, thr>>
    /\ UNCHANGED <<ledgerVars, raceVars, gateVars>>
    /\ UNCHANGED otherVars

NextSplit == Split

SpecSplit == InitSplit /\ [][NextSplit]_vars

InitPara ==
    /\ content \in ParaDocs
    /\ thr \in Thresholds
    /\ final_chunks = <<>>
    /\ pc = "call"
    /\ LedgerIdle
    /\ RaceIdle
    /\ GateIdle
    /\ OtherIdle

SpecPara == InitPara /\ [][NextSplit]_vars

\* The function takes any three numbers: triples without a minimum, with
\* max_words below min_words, and with min_final_words above min_words.
AnyThresholds ==
    {Triple(0, 3, 0), Triple(1, 0, 0), Triple(1, 1, 1), Triple(1, 3, 2),
     Triple(3, 2, 1), Triple(2, 3, 1)}

InitSplitAny ==
    /\ content \in Docs
    /\ thr \in AnyThresholds
    /\ final_chunks = <<>>
    /\ pc = "call"
    /\ LedgerIdle
    /\ RaceIdle
    /\ GateIdle
    /\ OtherIdle

SpecSplitAny == InitSplitAny /\ [][NextSplit]_vars

\* ----------------------------------------------------------- ledger
\* One process at a time runs main; main initialises the files and then
\* calls chunkSaveAndTrack for one chunk after the other.
InitLedger ==
    /\ SplitIdle
    /\ LedgerIdle
    /\ RaceIdle
    /\ GateIdle
    /\ OtherIdle

\* a new process (the list of cross-platform urls is empty) runs main up to
\* "Initialize files"
MainStart ==
    /\ main_pc = "idle"
    /\ run < MaxRuns
    /\ details_file' = InitializeFiles(details_file)
    /\ main_pc' = "running"
    /\ run' = run + 1
    /\ cross_platform_lps_dont_duplicate' = <<>>
    /\ UNCHANGED <<yaml_dir, today, drawn, recorded, before, calls>>
    /\ UNCHANGED <<splitVars, raceVars>>
    /\ UNCHANGED otherVars

\* chunkSaveAndTrack(url, chunk): the chunk file is written, then recordChunk
\* reads the ledger and writes it back
Track(url, chunk, again) ==
    /\ yaml_dir' = yaml_dir \cup {chunk.uuid}
    /\ details_file' = WriteRows(OpenForWrite(details_file),
                                 recordChunk(details_file, url, chunk, today))
    /\ recorded' = Append(recorded,
                          [url |-> url, chunk |-> chunk, day |-> today, run |-> run,
                           again |-> again])
    /\ before' = details_file
    /\ UNCHANGED <<today, main_pc, run>>
    /\ UNCHANGED <<splitVars, raceVars, gateVars>>
    /\ UNCHANGED otherVars

\* createChunk draws a fresh uuid; chunkSaveAndTrack gets the new chunk
ChunkSaveAndTrack ==
    /\ main_pc = "running"
    /\ Len(recorded) < MaxChunks
    /\ drawn' = drawn + 1
    /\ \E url \in Urls, text \in Contents :
           Track(url, [uuid |-> uuid4(drawn + 1), content |-> text], FALSE)

\* main returns and the process ends
MainEnd ==
    /\ main_pc = "running"
    /\ main_pc' = "idle"
    /\ UNCHANGED <<details_file, yaml_dir, today, run, drawn, recorded, before>>
    /\ UNCHANGED <<splitVars, raceVars, gateVars>>
    /\ UNCHANGED otherVars

\* midnight passes
NextDay ==
    /\ today < MaxDays
    /\ today' = today + 1
    /\ UNCHANGED <<details_file, yaml_dir, main_pc, run, drawn, recorded, before>>
    /\ UNCHANGED <<splitVars, raceVars, gateVars>>
    /\ UNCHANGED otherVars

NextLedger == MainStart \/ ChunkSaveAndTrack \/ MainEnd \/ NextDay

SpecLedger == InitLedger /\ [][NextLedger]_vars

\* chunkSaveAndTrack called once more with the url and the chunk of the
\* latest call
RecordAgain ==
    /\ main_pc = "running"
    /\ Len(recorded) < MaxChunks
    /\ recorded # <<>>
    /\ Last(recorded).run = run
    /\ Track(Last(recorded).url, Last(recorded).chunk, TRUE)
    /\ UNCHANGED drawn

NextRecordAgain == NextLedger \/ RecordAgain

SpecRecordAgain == InitLedger /\ [][NextRecordAgain]_vars

\* --------------------------------------- record calls on a found file
\* The ledger as a sequence of record calls finds it: with the header row
\* alone, as main leaves it, or with nothing in it, as open(details_file,
\* 'w') of another process leaves it before its rows are written.
FoundFiles == {<<>>, <<Header>>}

InitFound ==
    /\ details_file \in FoundFiles
    /\ yaml_dir = {}
    /\ today = 1
    /\ main_pc = "running"
    /\ run = 1
    /\ drawn = 0
    /\ recorded = <<>>
    /\ before = <<>>
    /\ SplitIdle
    /\ RaceIdle
    /\ GateIdle
    /\ OtherIdle

NextFound == ChunkSaveAndTrack \/ RecordAgain \/ NextDay

SpecFound == InitFound /\ [][NextFound]_vars

\* ------------------------------------------- two calls, no exclusion
\* Two processes call chunkSaveAndTrack on the same ledger.  A call reads the
\* whole file (open 'r' ... the loop over csv_reader), opens it for writing
\* (which truncates it) and writes its rows when the file is closed.
Procs == {1, 2}

Other(p) == 3 - p

\* a ledger the calls find: the header alone, or one row recorded before
Ledgers ==
    {<<Header>>,
     recordChunk(<<Header>>, "a/x", [uuid |-> uuid4(1), content |-> Render(<<"w2">>, 1, 1)], 1)}

InitRace ==
    /\ SplitIdle
    /\ details_file \in Ledgers
    /\ before = details_file
    /\ yaml_dir = {}
    /\ today = 1
    /\ main_pc = "running"
    /\ run = 1
    /\ drawn = 3
    /\ recorded = <<>>
    /\ proc \in [Procs -> [pc : {"read"}, url : Urls, content : Contents, new_rows : {<<>>}]]
    /\ history = <<>>
    /\ missing = FALSE
    /\ GateIdle
    /\ OtherIdle

ChunkOf(p) == [uuid |-> uuid4(p + 1), content |-> proc[p].content]

\* open(details_file, mode='r') that takes a missing file for an empty one
OpenForRead_Tolerant(is_missing) == "ok"

\* open(details_file, mode='r'): a missing file raises
OpenForRead(is_missing) == IF is_missing THEN "FileNotFoundError" ELSE "ok"

\* the chunk file is written and recordChunk reads the ledger
ReadLedger(p) ==
    /\ proc[p].pc = "read"
    /\ OpenForRead(missing) = "ok"
    /\ yaml_dir' = yaml_dir \cup {ChunkOf(p).uuid}
    /\ proc' = [proc EXCEPT ![p].pc = "open",
                            ![p].new_rows = recordChunk(details_file, proc[p].url,
                                                        ChunkOf(p), today)]
    /\ history' = Append(history, <<p, "read">>)
    /\ UNCHANGED <<details_file, today, main_pc, run, drawn, recorded, before, missing>>
    /\ UNCHANGED <<splitVars, gateVars>>
    /\ UNCHANGED otherVars

\* open(details_file, mode='w'): the file is created if it does not exist
OpenLedger(p) ==
    /\ proc[p].pc = "open"
    /\ details_file' = OpenForWrite(details_file)
    /\ missing' = FALSE
    /\ proc' = [proc EXCEPT ![p].pc = "write"]
    /\ history' = Append(history, <<p, "open">>)
    /\ UNCHANGED <<yaml_dir, today, main_pc, run, drawn, recorded, before>>
    /\ UNCHANGED <<splitVars, gateVars>>
    /\ UNCHANGED otherVars

\* csv_writer.writerows(new_rows) and the end of the with block
WriteLedger(p) ==
    /\ proc[p].pc = "write"
    /\ details_file' = WriteRows(details_file, proc[p].new_rows)
    /\ proc' = [proc EXCEPT ![p].pc = "done"]
    /\ history' = Append(history, <<p, "write">>)
    /\ UNCHANGED <<yaml_dir, today, main_pc, run, drawn, recorded, before, missing>>
    /\ UNCHANGED <<splitVars, gateVars>>
    /\ UNCHANGED otherVars

NextRace == \E p \in Procs : ReadLedger(p) \/ OpenLedger(p) \/ WriteLedger(p)

SpecRace == InitRace /\ [][NextRace]_vars

\* --------------------------------------------- a missing ledger file
\* The chunk file is written, then open(details_file, mode='r') raises
\* FileNotFoundError; nothing catches it, and the call ends.
ReadRaises(p) ==
    /\ proc[p].pc = "read"
    /\ OpenForRead(missing) # "ok"
    /\ yaml_dir' = yaml_dir \cup {ChunkOf(p).uuid}
    /\ proc' = [proc EXCEPT ![p].pc = "raised"]
    /\ history' = Append(history, <<p, "raise">>)
    /\ UNCHANGED <<details_file, today, main_pc, run, drawn, recorded, before, missing>>
    /\ UNCHANGED <<splitVars, gateVars>>
    /\ UNCHANGED otherVars

\* Something else removes the ledger file, once, while no call has it open
\* for writing and a call is still to come.
RemoveLedger ==
    /\ ~missing
    /\ \A i \in DOMAIN history : history[i] # <<0, "remove">>
    /\ \A p \in Procs : proc[p].pc # "write"
    /\ \E p \in Procs : proc[p].pc = "read"
    /\ missing' = TRUE
    /\ details_file' = <<>>
    /\ history' = Append(history, <<0, "remove">>)
    /\ UNCHANGED <<proc, yaml_dir, today, main_pc, run, drawn, recorded, before>>
    /\ UNCHANGED <<splitVars, gateVars>>
    /\ UNCHANGED otherVars

NextFailure == NextRace \/ (\E p \in Procs : ReadRaises(p)) \/ RemoveLedger

SpecFailure == InitRace /\ [][NextFailure]_vars

\* ------------------------------------------------ processLearningPath
\* A url is the sequence of its path segments; a relative url (href) is a
\* path with or without a trailing '/'.
LearningPaths ==
    {<<"learning-paths", "cross-platform", "a">>,
     <<"learning-paths", "cross-platform", "b">>,
     <<"learning-paths", "servers", "a">>}

\* the calls createLearningPathChunks makes
LpCalls ==
    {[url |-> <<"install-guides">>, type |-> "Install Guide"]}
        \cup {[url |-> u, type |-> "Learning Path"] : u \in LearningPaths}

\* 'cross-platform' in url
IsCrossPlatform(url) == \E i \in DOMAIN url : url[i] = "cross-platform"

\* url in cross_platform_lps_dont_duplicate
InList(list, url) == \E i \in DOMAIN list : list[i] = url

\* the links of the page of a learning path, or the cards of the install
\* guides page
LinksOf(url) ==
    CASE url = <<"install-guides">> -> << [path |-> "install/x", slash |-> TRUE] >>
      [] url = <<"learning-paths", "cross-platform", "a">> ->
             << [path |-> "cross/a/1", slash |-> TRUE],
                [path |-> "cross/a/2", slash |-> FALSE] >>
      [] url = <<"learning-paths", "cross-platform", "b">> ->
             << [path |-> "cross/b/1", slash |-> FALSE] >>
      [] url = <<"learning-paths", "servers", "a">> ->
             << [path |-> "servers/a/1", slash |-> TRUE] >>

\* the markdown file behind a link
MarkdownOf(link) ==
    IF link.path = "cross/a/1"
    THEN Render(<<"h2", "w2", "blank", "w2", "w2">>, 1, 1)
    ELSE Render(<<"w2", "w2">>, 1, 1)

\* what the fetch of the markdown file of a link gives: the text, or for
\* some links an HTTP error
Fetches(link) ==
    {[valid |-> TRUE, markdown |-> MarkdownOf(link)]}
        \cup (IF link.slash THEN {[valid |-> FALSE, markdown |-> <<>>]} ELSE {})

\* one fetch for every link of a page
FetchesOf(links) ==
    {f \in [1..Len(links) -> UNION {Fetches(links[i]) : i \in 1..Len(links)}] :
        \A i \in 1..Len(links) : f[i] \in Fetches(links[i])}

\* relative_url without a trailing '/', behind site_link
WEBSITE_url_of(link) == link.path

\* the thresholds every caller uses, scaled down
DefaultThresholds == Triple(3, 5, 2)

\* the gate of processLearningPath: whether the url is found in the list
\* ("NOT PROCESSING"), whether the call goes on, and the list afterwards
DedupGate_NeverAppends(list, url, type) ==
    IF type = "Learning Path" /\ IsCrossPlatform(url)
    THEN IF InList(list, url)
         THEN [found |-> TRUE, proceed |-> FALSE, list |-> list]
         ELSE [found |-> FALSE, proceed |-> TRUE, list |-> list]
    ELSE [found |-> FALSE, proceed |-> TRUE, list |-> list]

\* the gate without the return of line 346: the url is reported and processed
DedupGate_NoReturn(list, url, type) ==
    IF type = "Learning Path" /\ IsCrossPlatform(url)
    THEN IF InList(list, url)
         THEN [found |-> TRUE, proceed |-> TRUE, list |-> list]
         ELSE [found |-> FALSE, proceed |-> TRUE, list |-> Append(list, url)]
    ELSE [found |-> FALSE, proceed |-> TRUE, list |-> list]

\* the gate that lists every url it lets through, cross-platform or not
DedupGate_ListsEveryUrl(list, url, type) ==
    IF InList(list, url)
    THEN [found |-> type = "Learning Path" /\ IsCrossPlatform(url),
          proceed |-> ~(type = "Learning Path" /\ IsCrossPlatform(url)),
          list |-> list]
    ELSE [found |-> FALSE, proceed |-> TRUE, list |-> Append(list, url)]

DedupGate(list, url, type) ==
    IF type = "Learning Path" /\ IsCrossPlatform(url)
    THEN IF InList(list, url)
         THEN [found |-> TRUE, proceed |-> FALSE, list |-> list]
         ELSE [found |-> FALSE, proceed |-> TRUE, list |-> Append(list, url)]
    ELSE [found |-> FALSE, proceed |-> TRUE, list |-> list]

\* the files and the counters a call of chunkSaveAndTrack works on
LedgerState ==
    [file |-> details_file, yaml |-> yaml_dir, drawn |-> drawn,
     recorded |-> recorded, before |-> before]

\* createChunk and chunkSaveAndTrack for one text snippet
SaveAndTrack(st, url, text) ==
    LET chunk == [uuid |-> uuid4(st.drawn + 1), content |-> text]
    IN  [file |-> WriteRows(OpenForWrite(st.file),
                            recordChunk(st.file, url, chunk, today)),
         yaml |-> st.yaml \cup {chunk.uuid},
         drawn |-> st.drawn + 1,
         recorded |-> Append(st.recorded,
                             [url |-> url, chunk |-> chunk, day |-> today,
                              run |-> run, again |-> FALSE]),
         before |-> st.file]

RECURSIVE SaveSnippets(_, _, _, _)
\* for text_snippet in text_snippets
SaveSnippets(st, url, text_snippets, i) ==
    IF i > Len(text_snippets) THEN st
    ELSE SaveSnippets(SaveAndTrack(st, url, text_snippets[i].text),
                      url, text_snippets, i + 1)

\* chunkizeLearningPath: a markdown file that cannot be fetched is skipped
chunkizeLearningPath(st, link, fetch) ==
    IF ~fetch.valid THEN st
    ELSE SaveSnippets(st, WEBSITE_url_of(link),
                      obtainTextSnippets__Markdown(fetch.markdown, DefaultThresholds), 1)

RECURSIVE ChunkizeLinks(_, _, _, _)
\* the loop over the links of the page
ChunkizeLinks(st, links, fetches, i) ==
    IF i > Len(links) THEN st
    ELSE ChunkizeLinks(chunkizeLearningPath(st, links[i], fetches[i]),
                       links, fetches, i + 1)

\* processLearningPath(url, type)
ProcessLearningPath ==
    /\ main_pc = "running"
    /\ Len(calls) < MaxCalls
    /\ \E call \in LpCalls :
         \E fetches \in FetchesOf(LinksOf(call.url)) :
           LET gate == DedupGate(cross_platform_lps_dont_duplicate, call.url, call.type)
               st == IF gate.proceed
                     THEN ChunkizeLinks(LedgerState, LinksOf(call.url), fetches, 1)
                     ELSE LedgerState
           IN  /\ cross_platform_lps_dont_duplicate' = gate.list
               /\ details_file' = st.file
               /\ yaml_dir' = st.yaml
               /\ drawn' = st.drawn
               /\ recorded' = st.recorded
               /\ before' = st.before
               /\ calls' = Append(calls,
                                  [url |-> call.url, type |-> call.type, run |-> run,
                                   listed |-> InList(cross_platform_lps_dont_duplicate,
                                                     call.url),
                                   found |-> gate.found,
                                   processed |-> gate.proceed])
    /\ UNCHANGED <<today, main_pc, run>>
    /\ UNCHANGED <<splitVars, raceVars>>
    /\ UNCHANGED otherVars

NextGate == MainStart \/ ProcessLearningPath \/ MainEnd

SpecGate == InitLedger /\ [][NextGate]_vars

\* ------------------------------------------- one source after the other
\* processLearningPath and chunkizeLearningPath step by step.  A source is
\* a learning path of one page: its url, the text snippets its markdown is
\* split into, and what the requests made for it give.  main has written
\* the header row.
SnippetLists ==
    LET c == CHOOSE c \in Contents : TRUE
        d == CHOOSE d \in Contents : d # c
    IN  {<<>>, <<c>>, <<c, d>>}

\* "ok": every request succeeds.  "page_error": the navigation page comes
\* back with an error status, and its text holds no link.  "page_raises":
\* http_session.get of the navigation page raises (no connection, retries
\* used up).  "invalid": the request of URLIsValidCheck fails.  "raises":
\* URLIsValidCheck got the file, the request of
\* obtainMarkdownContentFromGitHubMDFile then fails.
FetchOutcomes == {"ok", "page_error", "page_raises", "invalid", "raises"}

Sources ==
    {src \in [url : Urls, snippets : SnippetLists, fetch : FetchOutcomes] :
        src.fetch # "ok" => Len(src.snippets) = 2}

\* what becomes of a source: its snippets are chunked, it is skipped, or
\* the exception leaves processLearningPath, createLearningPathChunks and
\* main
Fate(fetch) ==
    CASE fetch = "ok" -> "chunk"
      [] fetch = "page_error" -> "skip"
      [] fetch = "invalid" -> "skip"
      [] fetch = "page_raises" -> "abort"
      [] fetch = "raises" -> "abort"

Plans == UNION {[1..n -> Sources] : n \in 0..MaxSources}

\* chunkSaveAndTrack with recordChunk() before "Save chunk"
StepsOfChunkSaveAndTrack_RecordFirst == <<"record", "save">>

\* chunkSaveAndTrack: "Save chunk", then "Record chunk"
StepsOfChunkSaveAndTrack == <<"save", "record">>

\* the position after a step of chunkSaveAndTrack
After(step) ==
    IF step = StepsOfChunkSaveAndTrack[1] THEN StepsOfChunkSaveAndTrack[2] ELSE "next"

InitPipeline ==
    /\ \E plan \in Plans :
           pipe = [pc |-> "source", all |-> plan, plan |-> plan, url |-> "",
                   snippets |-> <<>>, chunk |-> NoChunk]
    /\ details_file = <<Header>>
    /\ yaml_dir = {}
    /\ today = 1
    /\ main_pc = "running"
    /\ run = 1
    /\ drawn = 0
    /\ recorded = <<>>
    /\ before = <<>>
    /\ SplitIdle
    /\ RaceIdle
    /\ GateIdle
    /\ KeywordsIdle
    /\ McpIdle

\* processLearningPath fetches the navigation page of the next source,
\* chunkizeLearningPath checks and fetches its markdown and gets its snippets
BeginSource ==
    /\ pipe.pc = "source"
    /\ pipe.plan # <<>>
    /\ LET src == Head(pipe.plan)
       IN  pipe' = [pipe EXCEPT
                       !.plan = Tail(pipe.plan),
                       !.url = src.url,
                       !.snippets = IF Fate(src.fetch) = "chunk" THEN src.snippets ELSE <<>>,
                       !.pc = CASE Fate(src.fetch) = "abort" -> "aborted"
                                [] Fate(src.fetch) = "skip" -> "source"
                                [] Fate(src.fetch) = "chunk" ->
                                       IF src.snippets = <<>> THEN "source" ELSE "create"]
    /\ UNCHANGED <<ledgerVars, splitVars, raceVars, gateVars, keywordVars, mcpVars>>

\* chunk = createChunk(text_snippet, ...), and chunkSaveAndTrack is entered
CreateChunkOfSnippet ==
    /\ pipe.pc = "create"
    /\ drawn' = drawn + 1
    /\ pipe' = [pipe EXCEPT !.chunk = [uuid |-> uuid4(drawn + 1),
                                       content |-> Head(pipe.snippets)],
                            !.pc = StepsOfChunkSaveAndTrack[1]]
    /\ UNCHANGED <<details_file, yaml_dir, today, main_pc, run, recorded, before>>
    /\ UNCHANGED <<splitVars, raceVars, gateVars, keywordVars, mcpVars>>

\* "Save chunk": the chunk file is written
SaveChunk ==
    /\ pipe.pc = "save"
    /\ yaml_dir' = yaml_dir \cup {pipe.chunk.uuid}
    /\ pipe' = [pipe EXCEPT !.pc = After("save")]
    /\ UNCHANGED <<details_file, today, main_pc, run, drawn, recorded, before>>
    /\ UNCHANGED <<splitVars, raceVars, gateVars, keywordVars, mcpVars>>

\* "Record chunk": recordChunk() reads the ledger and writes it back
RecordChunk ==
    /\ pipe.pc = "record"
    /\ details_file' = WriteRows(OpenForWrite(details_file),
                                 recordChunk(details_file, pipe.url, pipe.chunk, today))
    /\ recorded' = Append(recorded,
                          [url |-> pipe.url, chunk |-> pipe.chunk, day |-> today,
                           run |-> run, again |-> FALSE])
    /\ before' = details_file
    /\ pipe' = [pipe EXCEPT !.pc = After("record")]
    /\ UNCHANGED <<yaml_dir, today, main_pc, run, drawn>>
    /\ UNCHANGED <<splitVars, raceVars, gateVars, keywordVars, mcpVars>>

\* chunkSaveAndTrack returns: the loop goes to the next snippet, or
\* chunkizeLearningPath returns
NextSnippet ==
    /\ pipe.pc = "next"
    /\ pipe' = [pipe EXCEPT !.snippets = Tail(pipe.snippets),
                            !.chunk = NoChunk,
                            !.pc = IF Tail(pipe.snippets) = <<>> THEN "source" ELSE "create"]
    /\ UNCHANGED <<ledgerVars, splitVars, raceVars, gateVars, keywordVars, mcpVars>>

\* no source is left
EndOfSources ==
    /\ pipe.pc = "source"
    /\ pipe.plan = <<>>
    /\ pipe' = [pipe EXCEPT !.pc = "done"]
    /\ UNCHANGED <<ledgerVars, splitVars, raceVars, gateVars, keywordVars, mcpVars>>

NextPipeline ==
    \/ BeginSource
    \/ CreateChunkOfSnippet
    \/ SaveChunk
    \/ RecordChunk
    \/ NextSnippet
    \/ EndOfSources

SpecPipeline == InitPipeline /\ [][NextPipeline]_vars

\* ------------------------------------------------------------- Chunk
\* A keyword is a sequence of characters, a keyword list a sequence of
\* keywords, and the serialized keywords a sequence of characters.
Chars == {"A", "a", "I", " "}

\* str.lower, character by character
LowerChar(c) == IF c = "A" THEN "a" ELSE IF c = "I" THEN "i" ELSE c

lower(string) == [i \in DOMAIN string |-> LowerChar(string[i])]

RECURSIVE join(_, _)
\* ', '.join(keywords[i:])
join(list, i) ==
    IF i > Len(list) THEN <<>>
    ELSE IF i = Len(list) THEN list[i]
    ELSE list[i] \o <<",", " ">> \o join(list, i + 1)

\* str.strip of a string of characters
strip_chars(string) ==
    LET W == {i \in DOMAIN string : string[i] # " "}
    IN  IF W = {} THEN <<>> ELSE SubSeq(string, Min(W), Max(W))

\* formatKeywords that drops a keyword equal, up to case, to an earlier one
formatKeywords_Dedups(list) ==
    LET keep == {i \in DOMAIN list : ~\E j \in 1..(i - 1) : lower(list[j]) = lower(list[i])}
        kept == SelectSeq([i \in DOMAIN list |-> <<i, list[i]>>],
                          LAMBDA e : e[1] \in keep)
    IN  strip_chars(lower(join([i \in DOMAIN kept |-> kept[i][2]], 1)))

\* Chunk.formatKeywords
formatKeywords(list) == strip_chars(lower(join(list, 1)))

Terms == UNION {[1..n -> Chars] : n \in 0..MaxTermLen}

KeywordLists == UNION {[1..n -> Terms] : n \in 0..MaxKeywords}

InitChunk ==
    /\ keywords \in KeywordLists
    /\ chunk_keywords = <<>>
    /\ chunk_pc = "call"
    /\ SplitIdle
    /\ LedgerIdle
    /\ RaceIdle
    /\ GateIdle
    /\ McpIdle
    /\ PipeIdle

\* Chunk.__init__: self.keywords = self.formatKeywords(keywords)
CreateChunk ==
    /\ chunk_pc = "call"
    /\ chunk_keywords' = formatKeywords(keywords)
    /\ chunk_pc' = "created"
    /\ UNCHANGED keywords
    /\ UNCHANGED <<splitVars, ledgerVars, raceVars, gateVars, mcpVars, pipeVars>>

NextChunk == CreateChunk

SpecChunk == InitChunk /\ [][NextChunk]_vars

\* -------------------------------------------------- MCP stdio test
\* test_mcp_stdio_transport_responds talks to the server in the container
\* over its standard input and output, one JSON message per line.  A message
\* is modelled by its id (0: it has none), and by its method or by the key
\* its result holds ("-": it has no result).  The deadlines of the reads are
\* taken not to pass.
LastId == 7

INIT_REQUEST == [id |-> 1, method |-> "initialize"]

\* CHECK_IMAGE_REQUEST (id 2) to CHECK_MCA_TOOL_REQUEST (id 7)
ToolRequest(n) == [id |-> n, method |-> "tools/call"]

InitializedNotification == [id |-> 0, method |-> "initialized"]

\* the response of the server to a request
Response(request) ==
    [id |-> request,
     result |-> IF request = INIT_REQUEST.id THEN "serverInfo" ELSE "structuredContent"]

\* a notification of the server, e.g. a log message
Notification == [id |-> 0, result |-> "-"]

\* a line of the server's log on the same stream: it is not JSON
LogLine == [id |-> 0, result |-> "not json"]

\* _read_mcp_message: json.loads of the line (and of its part from the
\* first "{" on) succeeds
IsJson(line) == line # LogLine

\* _read_response that returns the first message it reads
read_response_AnyMessage(message, expected) == "return"

\* _read_response: a message with another id is skipped
read_response(message, expected) ==
    IF message.id = expected THEN "return" ELSE "skip"

InitMcp ==
    /\ client_pc = "init"
    /\ expected_id = INIT_REQUEST.id
    /\ stdin = <<>>
    /\ stdout = <<>>
    /\ pending = {}
    /\ notes = 0
    /\ sent = <<>>
    /\ answered = <<>>
    /\ got = <<>>
    /\ SplitIdle
    /\ LedgerIdle
    /\ RaceIdle
    /\ GateIdle
    /\ KeywordsIdle
    /\ PipeIdle

\* raw_socket.sendall(_encode_mcp_message(constants.INIT_REQUEST))
SendInit ==
    /\ client_pc = "init"
    /\ stdin' = Append(stdin, INIT_REQUEST)
    /\ sent' = Append(sent, INIT_REQUEST.id)
    /\ client_pc' = "read_init"
    /\ UNCHANGED <<expected_id, stdout, pending, notes, answered, got>>
    /\ UNCHANGED <<splitVars, ledgerVars, raceVars, gateVars, keywordVars, pipeVars>>

\* _read_mcp_message reads a line and returns the first that is a message;
\* the three assertions; the "initialized" notification is sent
ReadInit ==
    /\ client_pc = "read_init"
    /\ stdout # <<>>
    /\ LET response == Head(stdout)
       IN  /\ stdout' = Tail(stdout)
           /\ IF ~IsJson(response)
              THEN UNCHANGED <<got, stdin, client_pc, expected_id>>
              ELSE /\ got' = Append(got, response)
                   /\ IF response.id = 1 /\ response.result = "serverInfo"
                      THEN /\ stdin' = Append(stdin, InitializedNotification)
                           /\ client_pc' = "send"
                           /\ expected_id' = expected_id + 1
                      ELSE /\ client_pc' = "failed"
                           /\ UNCHANGED <<stdin, expected_id>>
    /\ UNCHANGED <<pending, notes, sent, answered>>
    /\ UNCHANGED <<splitVars, ledgerVars, raceVars, gateVars, keywordVars, pipeVars>>

\* raw_socket.sendall(_encode_mcp_message(constants.CHECK_..._REQUEST))
SendRequest ==
    /\ client_pc = "send"
    /\ stdin' = Append(stdin, ToolRequest(expected_id))
    /\ sent' = Append(sent, expected_id)
    /\ client_pc' = "wait"
    /\ UNCHANGED <<expected_id, stdout, pending, notes, answered, got>>
    /\ UNCHANGED <<splitVars, ledgerVars, raceVars, gateVars, keywordVars, pipeVars>>

\* _read_response(expected_id) reads a line; the assertion on the message
\* it returns reads response.get("result")[...]
ReadResponse ==
    /\ client_pc = "wait"
    /\ stdout # <<>>
    /\ LET message == Head(stdout)
       IN  /\ stdout' = Tail(stdout)
           /\ IF IsJson(message) /\ read_response(message, expected_id) = "return"
              THEN /\ got' = Append(got, message)
                   /\ IF message.result = "-"
                      THEN client_pc' = "failed" /\ UNCHANGED expected_id
                      ELSE IF expected_id = LastId
                           THEN client_pc' = "passed" /\ UNCHANGED expected_id
                           ELSE client_pc' = "send" /\ expected_id' = expected_id + 1
              ELSE UNCHANGED <<got, client_pc, expected_id>>
    /\ UNCHANGED <<stdin, pending, notes, sent, answered>>
    /\ UNCHANGED <<splitVars, ledgerVars, raceVars, gateVars, keywordVars, pipeVars>>

\* the server reads a line: it starts to work on a request and takes note
\* of a notification
ServerReceive ==
    /\ stdin # <<>>
    /\ stdin' = Tail(stdin)
    /\ pending' = IF Head(stdin).id # 0 THEN pending \cup {Head(stdin).id} ELSE pending
    /\ UNCHANGED <<client_pc, expected_id, stdout, notes, sent, answered, got>>
    /\ UNCHANGED <<splitVars, ledgerVars, raceVars, gateVars, keywordVars, pipeVars>>

\* the server answers a request it is working on
ServerRespond(request) ==
    /\ request \in pending
    /\ pending' = pending \ {request}
    /\ stdout' = Append(stdout, Response(request))
    /\ answered' = Append(answered, Response(request))
    /\ UNCHANGED <<client_pc, expected_id, stdin, notes, sent, got>>
    /\ UNCHANGED <<splitVars, ledgerVars, raceVars, gateVars, keywordVars, pipeVars>>

\* the server writes a notification while it works on a tool call
ServerNotify ==
    /\ notes < MaxNotes
    /\ \E request \in pending : request # INIT_REQUEST.id
    /\ notes' = notes + 1
    /\ stdout' = Append(stdout, Notification)
    /\ UNCHANGED <<client_pc, expected_id, stdin, pending, sent, answered, got>>
    /\ UNCHANGED <<splitVars, ledgerVars, raceVars, gateVars, keywordVars, pipeVars>>

\* the server writes a line to its log
ServerLog ==
    /\ notes < MaxNotes
    /\ client_pc \notin {"passed", "failed"}
    /\ notes' = notes + 1
    /\ stdout' = Append(stdout, LogLine)
    /\ UNCHANGED <<client_pc, expected_id, stdin, pending, sent, answered, got>>
    /\ UNCHANGED <<splitVars, ledgerVars, raceVars, gateVars, keywordVars, pipeVars>>

NextMcp ==
    \/ SendInit
    \/ ReadInit
    \/ SendRequest
    \/ ReadResponse
    \/ ServerReceive
    \/ (\E request \in 1..LastId : ServerRespond(request))
    \/ ServerNotify
    \/ ServerLog

\* the server goes on reading its input and answering what it works on
SpecMcp ==
    /\ InitMcp
    /\ [][NextMcp]_vars
    /\ WF_vars(ServerReceive)
    /\ WF_vars(\E request \in 1..LastId : ServerRespond(request))

\* ------------------------------------------------ splitter: claims
Returned == pc = "returned"

RECURSIVE AllWords(_, _)
\* the words of the chunks from the i-th on, read in order
AllWords(chunks, i) ==
    IF i > Len(chunks) THEN <<>>
    ELSE Words(chunks[i].text) \o AllWords(chunks, i + 1)

\* a word made of two words that met without white space
HasFused(text) == \E i \in DOMAIN text : Len(text[i]) > 1

Fused(text) == IF HasFused(text) THEN 1 ELSE 0

\* a line that begins with a heading marker of level 2, 3 or 4
HasHeading(text) ==
    \E i \in DOMAIN text :
        /\ text[i] \in {<<-2>>, <<-3>>, <<-4>>}
        /\ (i = 1 \/ text[i - 1] = NL)

HasBlankLine(text) == \E i \in 1..(Len(text) - 1) : text[i] = NL /\ text[i + 1] = NL

\* C1: the words of the returned chunks, read in order, are the words of the
\* input: none lost, duplicated, reordered or fused with a neighbour.
C1_WordsReconstructInput ==
    Returned => AllWords(final_chunks, 1) = Words(content)

\* C2 as claimed: every returned chunk has min_words <= word count <=
\* max_words, unless a final remainder was merged into it or it is one single
\* paragraph of more than max_words words.
C2_AsClaimed ==
    Returned =>
        \A i \in DOMAIN final_chunks :
            LET c == final_chunks[i]
                n == word_count(c.text)
            IN  \/ c.merged
                \/ (Len(split_paragraphs(c.text)) = 1 /\ n > thr.max_words)
                \/ (thr.min_words <= n /\ n <= thr.max_words)

\* C2 amended: a returned chunk exceeds max_words only if the paragraph pass
\* emitted it, and a chunk flushed inside the grouping loop (not the final
\* remainder of its pass) has at least min_words words, one fewer if it holds
\* a fused word.
C2_FlushedChunkBounds ==
    Returned =>
        \A i \in DOMAIN final_chunks :
            LET c == final_chunks[i]
                n == word_count(c.text)
            IN  /\ c.stage # 0 => n <= thr.max_words
                /\ ~c.remainder => n >= thr.min_words - Fused(c.text)

\* a chunk flushed inside the loop that a fused word leaves one short of
\* min_words, beside a chunk of the paragraph pass that exceeds max_words
C2_Witness ==
    /\ Returned
    /\ \E i \in DOMAIN final_chunks :
           /\ ~final_chunks[i].remainder
           /\ HasFused(final_chunks[i].text)
           /\ word_count(final_chunks[i].text) = thr.min_words - 1

\* C3 as claimed: every returned chunk has a word count in
\* [min_final_words, max_words], unless it is the sole chunk of a source of
\* fewer than min_final_words words or a final remainder was merged into it.
C3_AsClaimed ==
    Returned =>
        \A i \in DOMAIN final_chunks :
            LET c == final_chunks[i]
                n == word_count(c.text)
            IN  \/ (Len(final_chunks) = 1 /\ word_count(content) < thr.min_final_words)
                \/ c.merged
                \/ (thr.min_final_words <= n /\ n <= thr.max_words)

\* C3 amended: every returned chunk has at least min_final_words words (one
\* fewer if it holds a fused word) unless it is the sole chunk of a source of
\* fewer than min_final_words words, and at most max_words words unless the
\* paragraph pass emitted it.
C3_FinalChunkBounds ==
    Returned =>
        \A i \in DOMAIN final_chunks :
            LET c == final_chunks[i]
                n == word_count(c.text)
            IN  /\ \/ (Len(final_chunks) = 1 /\ word_count(content) < thr.min_final_words)
                   \/ n >= thr.min_final_words - Fused(c.text)
                /\ n > thr.max_words => c.stage = 0

\* a final remainder emitted on its own that a fused word leaves one short of
\* min_final_words
C3_Witness ==
    /\ Returned
    /\ Len(final_chunks) > 1
    /\ \E i \in DOMAIN final_chunks :
           /\ final_chunks[i].remainder
           /\ HasFused(final_chunks[i].text)
           /\ word_count(final_chunks[i].text) = thr.min_final_words - 1

\* C4 as claimed: a document without heading markers and with at least
\* min_final_words words comes back as exactly one chunk with the words of
\* the document.
C4_AsClaimed ==
    (Returned /\ ~HasHeading(content) /\ word_count(content) >= thr.min_final_words)
        => (Len(final_chunks) = 1 /\ Words(final_chunks[1].text) = Words(content))

\* C4 amended: a document without heading markers whose word count lies in
\* [min_final_words, max_words] comes back as exactly one chunk with the
\* words of the document.
C4_NoHeadingWithinMaxOneChunk ==
    (/\ Returned
     /\ ~HasHeading(content)
     /\ word_count(content) >= thr.min_final_words
     /\ word_count(content) <= thr.max_words)
        => (Len(final_chunks) = 1 /\ Words(final_chunks[1].text) = Words(content))

\* a heading-free document of several paragraphs and exactly max_words words
C4_Witness ==
    /\ Returned
    /\ ~HasHeading(content)
    /\ HasBlankLine(content)
    /\ word_count(content) = thr.max_words
    /\ Len(final_chunks) = 1

\* C5 as claimed: a document of fewer than min_final_words words, also one
\* without any word, comes back as exactly one chunk.
C5_AsClaimed ==
    (Returned /\ word_count(content) < thr.min_final_words) => Len(final_chunks) = 1

\* C5 amended: a document of at least one and fewer than min_final_words
\* words comes back as exactly one chunk, whatever its headings; a document
\* without any word comes back as no chunk.
C5_ShortDocumentOneChunk ==
    (Returned /\ word_count(content) < thr.min_final_words)
        => Len(final_chunks) = (IF word_count(content) = 0 THEN 0 ELSE 1)

\* a short document that the level-2 split cuts into several pieces
C5_Witness ==
    /\ Returned
    /\ word_count(content) < thr.min_final_words
    /\ Len(split_by_heading(content, 2)) > 1
    /\ Len(final_chunks) = 1

\* -------------------------------------------------- ledger: claims
\* the rows of a url, the header row apart
RowsOf(file, url) == {i \in 2..Len(file) : file[i][1] = <<url>>}

\* the calls made with a url in the current run of main, and in all runs
RunRecords(url) == SelectSeq(recorded, LAMBDA r : r.run = run /\ r.url = url)

AllRecords(url) == SelectSeq(recorded, LAMBDA r : r.url = url)

RECURSIVE SumWords(_, _)
SumWords(recs, i) ==
    IF i > Len(recs) THEN 0
    ELSE word_count(recs[i].chunk.content) + SumWords(recs, i + 1)

\* C6: in a run of main that started from the header row, after any sequence
\* of calls the row of each url holds as Number of Words the sum of the word
\* counts of the chunks recorded against exactly that url and as Number of
\* Chunks their number.
C6_RowTotalsMatchRecorded ==
    run >= 1 =>
        \A u \in Urls :
            LET recs == RunRecords(u)
            IN  /\ recs # <<>> => RowsOf(details_file, u) # {}
                /\ \A i \in RowsOf(details_file, u) :
                       /\ int(details_file[i][3]) = SumWords(recs, 1)
                       /\ int(details_file[i][4]) = Len(recs)

\* both urls recorded, one of them more than once, with a two-digit total
C6_Witness ==
    /\ Len(RunRecords("a/x")) >= 2
    /\ Len(RunRecords("a/x/")) >= 1
    /\ SumWords(RunRecords("a/x"), 1) >= 10

RECURSIVE OnePass(_, _, _, _)
\* the records from the i-th on, recorded one after the other on one day
OnePass(file, recs, i, day) ==
    IF i > Len(recs) THEN file
    ELSE OnePass(recordChunk(file, recs[i].url, recs[i].chunk, day), recs, i + 1, day)

\* C8: the row of a url after its chunks were recorded in several batches
\* (on different days, among calls for other urls) is the row that recording
\* the same chunks in one pass gives: url, date, word total, chunk count and
\* the chunk ids in order.
C8_BatchesGiveOnePassRow ==
    run >= 1 =>
        \A u \in Urls :
            LET recs == RunRecords(u)
            IN  recs # <<>> =>
                    /\ RowsOf(details_file, u) # {}
                    /\ \A i \in RowsOf(details_file, u) :
                           details_file[i] = OnePass(<<Header>>, recs, 1, recs[1].day)[2]

\* c1 and c2 recorded on one day, c3 on a later day
C8_Witness ==
    \E u \in Urls :
        LET recs == RunRecords(u)
        IN  /\ Len(recs) = 3
            /\ recs[1].day = recs[2].day
            /\ recs[2].day < recs[3].day

\* the latest call repeated the call before it, and main did not start anew
RecordedAgain ==
    /\ recorded # <<>>
    /\ Last(recorded).again
    /\ Last(recorded).run = run

\* C9 as claimed: recording the same chunk against the same url a second
\* time leaves the ledger as it was after the first recording.
C9_AsClaimed == RecordedAgain => details_file = before

\* C9 amended: recording the same chunk against the same url a second time
\* changes only the row of that url: the chunk's word count is added once
\* more, the chunk count grows by one and the chunk id is appended once more.
C9_SecondRecordingAccumulates ==
    RecordedAgain =>
        LET r == Last(recorded)
        IN  /\ RowsOf(before, r.url) # {}
            /\ Len(details_file) = Len(before)
            /\ \A i \in 1..Len(before) :
                   IF i \in RowsOf(before, r.url)
                   THEN /\ details_file[i][1] = before[i][1]
                        /\ details_file[i][2] = before[i][2]
                        /\ int(details_file[i][3])
                               = int(before[i][3]) + word_count(r.chunk.content)
                        /\ int(details_file[i][4]) = int(before[i][4]) + 1
                        /\ details_file[i][5]
                               = before[i][5] \o <<", ", "chunk_">> \o r.chunk.uuid
                   ELSE details_file[i] = before[i]

\* a second recording next to the row of another url
C9_Witness ==
    /\ RecordedAgain
    /\ Len(before) = 3

\* a url with a chunk recorded in an earlier run of main and one in this run
InBothRuns(url) ==
    /\ \E j \in DOMAIN recorded : recorded[j].url = url /\ recorded[j].run < run
    /\ \E j \in DOMAIN recorded : recorded[j].url = url /\ recorded[j].run = run

\* C10 as claimed: after main ran twice on the same ledger file, the row of
\* a url processed in both runs holds the words and the chunks of both runs.
C10_AsClaimed ==
    \A u \in Urls :
        InBothRuns(u) =>
            \A i \in RowsOf(details_file, u) :
                /\ int(details_file[i][3]) = SumWords(AllRecords(u), 1)
                /\ int(details_file[i][4]) = Len(AllRecords(u))

\* C10 amended: main starts every run by writing the header row over the
\* ledger file, so the row of a url processed in two runs holds the words
\* and the chunks of the later run alone, and its ids are of that run.
C10_RowHoldsLatestRunOnly ==
    \A u \in Urls :
        InBothRuns(u) =>
            /\ RowsOf(details_file, u) # {}
            /\ \A i \in RowsOf(details_file, u) :
                   /\ int(details_file[i][3]) = SumWords(RunRecords(u), 1)
                   /\ int(details_file[i][4]) = Len(RunRecords(u))
                   /\ int(details_file[i][4]) < Len(AllRecords(u))
                   /\ SubSeq(details_file[i][5], 1, 1 + Len(RunRecords(u)[1].chunk.uuid))
                          = chunk_id_of(RunRecords(u)[1].chunk)

\* the second run has recorded a url of the first run
C10_Witness ==
    /\ run = 2
    /\ InBothRuns("a/x")
    /\ Len(RunRecords("a/x")) = 2

\* ------------------------------------------- two calls: claims
\* the place of a step in the history
Pos(p, step) == CHOOSE i \in DOMAIN history : history[i] = <<p, step>>

BothDone == Len(history) = 6

\* both calls have read the ledger before either opened it for writing
BothReadFirst ==
    /\ BothDone
    /\ \A p \in Procs : Pos(p, "read") < Pos(Other(p), "open")

\* one call opened the ledger for writing between the open and the write of
\* the other
Overlapped ==
    ~(\/ Pos(1, "write") < Pos(2, "open")
      \/ Pos(2, "write") < Pos(1, "open"))

LastWriter == IF Pos(1, "write") > Pos(2, "write") THEN 1 ELSE 2

\* Number of Words and Number of Chunks of a url, 0 without a row
WordsIn(file, url) ==
    IF RowsOf(file, url) = {} THEN 0
    ELSE int(file[CHOOSE i \in RowsOf(file, url) : TRUE][3])

ChunksIn(file, url) ==
    IF RowsOf(file, url) = {} THEN 0
    ELSE int(file[CHOOSE i \in RowsOf(file, url) : TRUE][4])

\* the ledger holds the chunk id of a call
HoldsIdOf(file, p) ==
    \E i \in 2..Len(file) :
        /\ Len(file[i]) = 5
        /\ \E j \in 1..(Len(file[i][5]) - 1) :
               /\ file[i][5][j] = "chunk_"
               /\ SubSeq(file[i][5], j + 1, j + Len(ChunkOf(p).uuid)) = ChunkOf(p).uuid

\* of two calls that read the same ledger, the one that wrote last is in the
\* ledger and the other is not
OnlyLastWriterCounted ==
    LET l == LastWriter
        f == Other(LastWriter)
    IN  /\ WordsIn(details_file, proc[l].url)
               = WordsIn(before, proc[l].url) + word_count(proc[l].content)
        /\ ChunksIn(details_file, proc[l].url) = ChunksIn(before, proc[l].url) + 1
        /\ HoldsIdOf(details_file, l)
        /\ ~HoldsIdOf(details_file, f)
        /\ proc[f].url # proc[l].url =>
               /\ WordsIn(details_file, proc[f].url) = WordsIn(before, proc[f].url)
               /\ ChunksIn(details_file, proc[f].url) = ChunksIn(before, proc[f].url)

\* C7 as claimed: when both calls read the table before either writes it
\* back, the final table reflects only the call that wrote last, and exactly
\* one update is lost.
C7_AsClaimed ==
    BothReadFirst =>
        /\ Len(details_file) = Len(proc[LastWriter].new_rows)
        /\ details_file = proc[LastWriter].new_rows
        /\ OnlyLastWriterCounted

\* C7 amended: when both calls read the table before either opens it for
\* writing and the two write-backs do not overlap, the final table is the
\* table of the call that wrote last: its update is counted, the other's is
\* lost.
C7_LastWriteBackWins ==
    (BothReadFirst /\ ~Overlapped) =>
        /\ Len(details_file) = Len(proc[LastWriter].new_rows)
        /\ details_file = proc[LastWriter].new_rows
        /\ OnlyLastWriterCounted

\* two calls for the url of an existing row, one write-back after the other
C7_Witness ==
    /\ BothReadFirst
    /\ ~Overlapped
    /\ proc[1].url = proc[2].url
    /\ RowsOf(before, proc[1].url) # {}

\* ------------------------------------------------ the gate: claims
\* the calls of processLearningPath made by the process that runs now
SameProcess(i, j) == calls[i].run = calls[j].run

\* the call is admit(url, true)
ThroughGate(c) == c.type = "Learning Path" /\ IsCrossPlatform(c.url)

\* C11: within one process, the second and every later call for the same
\* cross-platform url is not processed, and a call that does not go through
\* the gate (the url is not cross-platform, or it is the install guides) is
\* always processed, whatever calls preceded it.
C11_SecondAdmitRejected ==
    \A j \in DOMAIN calls :
        /\ ThroughGate(calls[j]) =>
               (calls[j].processed
                    <=> ~\E i \in 1..(j - 1) :
                            SameProcess(i, j) /\ calls[i].url = calls[j].url)
        /\ ~ThroughGate(calls[j]) => calls[j].processed

\* a cross-platform url processed, then rejected twice, in one process, and
\* an other url processed twice
C11_Witness ==
    /\ Len(calls) >= 3
    /\ \E i, j, k \in DOMAIN calls :
           /\ i < j /\ j < k
           /\ SameProcess(i, k)
           /\ calls[i].url = calls[j].url /\ calls[j].url = calls[k].url
           /\ ThroughGate(calls[i])
           /\ calls[i].processed /\ ~calls[j].processed /\ ~calls[k].processed

\* C12: a call that finds its cross-platform url in the list stops at once:
\* it draws no uuid, writes no chunk file, and leaves the ledger and the list
\* as they are.
C12_RejectedCallChangesNothing ==
    [][(/\ Len(calls') = Len(calls) + 1
        /\ ThroughGate(calls'[Len(calls')])
        /\ calls'[Len(calls')].listed)
           => /\ details_file' = details_file
              /\ yaml_dir' = yaml_dir
              /\ drawn' = drawn
              /\ recorded' = recorded
              /\ cross_platform_lps_dont_duplicate' = cross_platform_lps_dont_duplicate]_vars

\* a rejected call in a process whose ledger holds rows
C12_Witness ==
    /\ calls # <<>>
    /\ Last(calls).listed
    /\ ThroughGate(Last(calls))
    /\ Last(calls).run = run
    /\ Len(details_file) > 1
    /\ cross_platform_lps_dont_duplicate # <<>>

\* ------------------------------------------------ keywords: claims
Created == chunk_pc = "created"

RECURSIVE SplitTerms(_, _, _)
\* the serialized keywords read back: the pieces between the ", "
SplitTerms(string, i, term) ==
    IF i > Len(string) THEN <<term>>
    ELSE IF i < Len(string) /\ string[i] = "," /\ string[i + 1] = " "
         THEN <<term>> \o SplitTerms(string, i + 2, <<>>)
         ELSE SplitTerms(string, i + 1, Append(term, string[i]))

\* the keyword list with every keyword in lower case
Lowered(list) == [i \in DOMAIN list |-> lower(list[i])]

\* a keyword list whose first keyword does not begin with white space and
\* whose last keyword is not empty and does not end with white space
EndsTrimmed(list) ==
    /\ list # <<>>
    /\ list[1] # <<>> => list[1][1] # " "
    /\ Last(list) # <<>>
    /\ Last(Last(list)) # " "

HeadingsAt(text, k) == {i \in DOMAIN text : IsHeadingAt(text, i, k)}

\* the n-th smallest element of a set of numbers
Nth(S, n) == CHOOSE x \in S : Cardinality({y \in S : y < x}) = n - 1

\* the document is three level-2 sections and nothing else
ThreeSections ==
    /\ Len(content) >= 2
    /\ content[1] = <<-2>>
    /\ content[2] # NL
    /\ Cardinality(HeadingsAt(content, 2)) = 2

s1 == SubSeq(content, 1, Nth(HeadingsAt(content, 2), 1) - 1)
s2 == SubSeq(content, Nth(HeadingsAt(content, 2), 1), Nth(HeadingsAt(content, 2), 2) - 1)
s3 == SubSeq(content, Nth(HeadingsAt(content, 2), 2), Len(content))

\* the sizes of the scenario: s1 is large enough to stand alone, s2 is not,
\* s2 and s3 together make a chunk
Scenario3 ==
    /\ ThreeSections
    /\ word_count(s1) >= thr.min_words
    /\ word_count(s2) < thr.min_words
    /\ word_count(s2) + word_count(s3) >= thr.min_final_words
    /\ word_count(s2) + word_count(s3) <= thr.max_words

TwoChunksS1AndRest ==
    /\ Len(final_chunks) = 2
    /\ Words(final_chunks[1].text) = Words(s1)
    /\ Words(final_chunks[2].text) = Words(s2) \o Words(s3)

\* C14 as claimed: three level-2 sections s1, s2, s3 with word_count(s1) >=
\* min_words, word_count(s2) < min_words and min_final_words <=
\* word_count(s2) + word_count(s3) <= max_words come back as exactly two
\* chunks, s1 and s2 followed by s3.
C14_AsClaimed == (Returned /\ Scenario3) => TwoChunksS1AndRest

\* C14 amended: the same, for word_count(s1) <= max_words.
C14_ThreeSectionsTwoChunks ==
    (Returned /\ Scenario3 /\ word_count(s1) <= thr.max_words) => TwoChunksS1AndRest

\* the scenario with the scaled default thresholds and a first section of
\* more than one line
C14_Witness ==
    /\ Returned
    /\ Scenario3
    /\ thr = Triple(3, 5, 2)
    /\ word_count(s1) <= thr.max_words
    /\ HasBlankLine(s1) \/ Cardinality({i \in DOMAIN s1 : s1[i] = NL}) >= 2
    /\ TwoChunksS1AndRest

\* the document is one level-2 section that one level-3 heading divides
OneSectionTwoParts ==
    /\ Len(content) >= 2
    /\ content[1] = <<-2>>
    /\ content[2] # NL
    /\ HeadingsAt(content, 2) = {}
    /\ Cardinality(HeadingsAt(content, 3)) = 1

t1 == SubSeq(content, 1, Nth(HeadingsAt(content, 3), 1) - 1)
t2 == SubSeq(content, Nth(HeadingsAt(content, 3), 1), Len(content))

\* the document is one level-2 section of a heading line and two level-3
\* sections
TitleAndTwoSubsections ==
    /\ Len(content) >= 2
    /\ content[1] = <<-2>>
    /\ content[2] # NL
    /\ HeadingsAt(content, 2) = {}
    /\ Cardinality(HeadingsAt(content, 3)) = 2
    /\ Nth(HeadingsAt(content, 3), 1) = LineEnd(content, 1) + 2

\* the heading line with the first level-3 section, and the second one
u1 == SubSeq(content, 1, Nth(HeadingsAt(content, 3), 2) - 1)
u2 == SubSeq(content, Nth(HeadingsAt(content, 3), 2), Len(content))

\* C15: a single level-2 section of more than max_words words that a
\* level-3 heading divides into two parts, each of min_words to max_words
\* words, comes back as two chunks, one for each part, not as one chunk.
\* The first part is the text up to the dividing heading: it begins with the
\* level-2 heading line, and may have a level-3 heading of its own right
\* after that line.
C15_Level3RefinementTwoChunks ==
    /\ (/\ Returned
        /\ OneSectionTwoParts
        /\ word_count(content) > thr.max_words
        /\ word_count(t1) >= thr.min_words /\ word_count(t1) <= thr.max_words
        /\ word_count(t2) >= thr.min_words /\ word_count(t2) <= thr.max_words)
           => /\ Len(final_chunks) = 2
              /\ Words(final_chunks[1].text) = Words(t1)
              /\ Words(final_chunks[2].text) = Words(t2)
    /\ (/\ Returned
        /\ TitleAndTwoSubsections
        /\ word_count(content) > thr.max_words
        /\ word_count(SubSeq(content, 1, LineEnd(content, 1))) < thr.min_words
        /\ word_count(u1) >= thr.min_words /\ word_count(u1) <= thr.max_words
        /\ word_count(u2) >= thr.min_words /\ word_count(u2) <= thr.max_words)
           => /\ Len(final_chunks) = 2
              /\ Words(final_chunks[1].text) = Words(u1)
              /\ Words(final_chunks[2].text) = Words(u2)

\* two parts of equal size, each of several lines, with the scaled default
\* thresholds
C15_Witness ==
    /\ Returned
    /\ OneSectionTwoParts
    /\ thr = Triple(3, 5, 2)
    /\ word_count(t1) = 3
    /\ word_count(t2) = 3
    /\ Len(final_chunks) = 2
    /\ final_chunks[1].stage = 3

\* ------------------------------------- splitter: any threshold triple
\* C16 as claimed: for every input and every threshold triple every
\* returned chunk has at least one word, and a remainder without words
\* gives no chunk.
C16_AsClaimed ==
    Returned =>
        /\ \A i \in DOMAIN final_chunks : word_count(final_chunks[i].text) >= 1
        /\ word_count(content) = 0 => final_chunks = <<>>

\* C16 amended: for every input and every threshold triple with min_words
\* >= 1 every returned chunk has at least one word, and a remainder without
\* words gives no chunk.
C16_ChunksNonEmpty ==
    (Returned /\ thr.min_words >= 1) =>
        /\ \A i \in DOMAIN final_chunks : word_count(final_chunks[i].text) >= 1
        /\ word_count(content) = 0 => final_chunks = <<>>

\* a document with a paragraph without words, cut into several chunks under
\* thresholds that are out of order
C16_Witness ==
    /\ Returned
    /\ thr.min_words >= 1
    /\ thr.max_words < thr.min_words
    /\ Len(final_chunks) >= 2
    /\ \E i \in 1..(Len(content) - 3) : \A j \in i..(i + 3) : content[j] = NL

\* --------------------------------------------- ledger failures: claims
\* the steps of a call, and the removals of the file, in the history
Steps(p, step) == {i \in DOMAIN history : history[i] = <<p, step>>}

\* the call of p has returned, normally or not
Ended(p) == proc[p].pc \in {"done", "raised"}

\* the file did not exist when the call of p opened it for reading: it was
\* removed before and no call had opened it for writing since
MissingAtRead(p) ==
    \E i \in Steps(p, "read") \cup Steps(p, "raise") :
        \E r \in Steps(0, "remove") :
            /\ r < i
            /\ ~\E o \in (r + 1)..(i - 1) : history[o][2] = "open"

\* the ledger accounts for the chunk of every call that returned normally
NoLostUpdate ==
    \A p \in Procs : proc[p].pc = "done" => HoldsIdOf(details_file, p)

\* C17 as claimed: a missing file makes the call raise, and a call never
\* returns normally from a ledger that then lacks an update: when both calls
\* have ended, the ledger holds the chunk of every call that returned
\* normally.
C17_AsClaimed ==
    (\A p \in Procs : Ended(p)) =>
        /\ \A p \in Procs : MissingAtRead(p) => proc[p].pc = "raised"
        /\ NoLostUpdate

\* C17 amended: a call raises exactly when the file does not exist as it
\* opens it for reading; the call has then written its chunk file and leaves
\* the ledger alone.  Nothing else is detected: a call that finds the file
\* returns normally, also when the other call wrote in between and its
\* own write-back then drops the other's update.
C17_OnlyMissingFileRaises ==
    /\ \A p \in Procs :
           Ended(p) =>
               /\ proc[p].pc = "raised" <=> MissingAtRead(p)
               /\ proc[p].pc = "raised" =>
                      /\ ChunkOf(p).uuid \in yaml_dir
                      /\ Steps(p, "open") = {} /\ Steps(p, "write") = {}
                      /\ proc[p].new_rows = <<>>
    /\ (/\ \A p \in Procs : proc[p].pc = "done"
        /\ Steps(0, "remove") = {}
        /\ BothReadFirst
        /\ ~Overlapped)
           => ~HoldsIdOf(details_file, Other(LastWriter))

\* one call raised on the missing file, the other found the file and
\* returned normally
C17_Witness ==
    /\ \E p \in Procs :
           /\ proc[p].pc = "raised"
           /\ proc[Other(p)].pc = "done"
           /\ Steps(Other(p), "write") # {}
           /\ \E i \in Steps(Other(p), "write"), j \in Steps(p, "raise") : i < j

\* --------------------------------------------- one record call: claims
\* the latest call of chunkSaveAndTrack was made in the current run of main:
\* before is the ledger it read and details_file the ledger it wrote
JustRecorded ==
    /\ recorded # <<>>
    /\ Last(recorded).run = run

\* seq begins with the elements of prefix
StartsWith(seq, prefix) ==
    /\ Len(prefix) <= Len(seq)
    /\ SubSeq(seq, 1, Len(prefix)) = prefix

\* C19: a record call for url u with an existing row replaces that row by
\* one with the same url and the same date, the word total increased by the
\* chunk's word count, the chunk count increased by 1 and ', chunk_<id>'
\* appended after the existing ids; with no existing row it appends a row
\* with today's date, the chunk's word count, count 1 and the single new id.
\* So the date of a row stays and its id list only grows at its end.
C19_RecordUpdatesOrAppendsRow ==
    JustRecorded =>
        LET r == Last(recorded)
            words == word_count(r.chunk.content)
            new_id == <<"chunk_">> \o r.chunk.uuid
        IN  IF RowsOf(before, r.url) # {}
            THEN \A i \in RowsOf(before, r.url) :
                     /\ i \in RowsOf(details_file, r.url)
                     /\ details_file[i][2] = before[i][2]
                     /\ int(details_file[i][3]) = int(before[i][3]) + words
                     /\ int(details_file[i][4]) = int(before[i][4]) + 1
                     /\ details_file[i][5] = before[i][5] \o <<", ">> \o new_id
                     /\ StartsWith(details_file[i][5], before[i][5])
            ELSE /\ Len(details_file) = Len(before) + 1
                 /\ Last(details_file)[1] = <<r.url>>
                 /\ Last(details_file)[2] = strftime(r.day)
                 /\ int(Last(details_file)[3]) = words
                 /\ int(Last(details_file)[4]) = 1
                 /\ Last(details_file)[5] = new_id

\* a row made on one day gets a chunk on a later day
C19_Witness ==
    /\ JustRecorded
    /\ \E i \in RowsOf(before, Last(recorded).url) :
           /\ before[i][2] # strftime(Last(recorded).day)
           /\ int(details_file[i][4]) >= 2

\* C20: a record call for url u leaves every row of another url as it was
\* and keeps the rows in their order, the header first; the row of a fresh
\* url comes behind all the rows there were.
C20_OtherRowsAndOrderKept ==
    JustRecorded =>
        LET r == Last(recorded)
            fresh == RowsOf(before, r.url) = {}
        IN  /\ before[1] = Header
            /\ details_file[1] = Header
            /\ Len(details_file) = Len(before) + (IF fresh THEN 1 ELSE 0)
            /\ \A i \in 2..Len(before) :
                   /\ details_file[i][1] = before[i][1]
                   /\ before[i][1] # <<r.url>> => details_file[i] = before[i]
            /\ fresh => RowsOf(details_file, r.url) = {Len(before) + 1}

\* the first of two rows is updated
C20_Witness ==
    /\ JustRecorded
    /\ Len(before) = 3
    /\ before[2][1] = <<Last(recorded).url>>
    /\ details_file[2] # before[2]

\* ------------------------------------------------------ MCP: claims
\* the request with this id was sent, and the server answered it
WasSent(n) == \E i \in DOMAIN sent : sent[i] = n

WasAnswered(n) ==
    \E i \in DOMAIN answered : answered[i].id = n /\ answered[i].result # "-"

C21_NoHeadingFlushAtParagraphs ==
    Returned =>
        \A i \in DOMAIN final_chunks :
            final_chunks[i].stage = 0 => ~final_chunks[i].at_heading

\* ------------------------------------------- heading sections: claims
\* the tokens of the last line of a text
LastLine(text) ==
    LET E == {j \in DOMAIN text : text[j] = NL}
    IN  IF E = {} THEN text ELSE SubSeq(text, Max(E) + 1, Len(text))

\* a line made of a heading marker of level k and a title
IsHeadingLine(line, k) == Len(line) >= 2 /\ line[1] = <<-k>>

\* the lines from the start..Len(text) that begin a heading of level k
HeadingLines(text, k) == {i \in DOMAIN text : IsHeadingAt(text, i, k)}

\* C22: the fragments of the split at a heading level are the text before
\* the first heading and then one fragment for each heading: it starts with
\* the heading line and runs up to the next heading of the level, so that a
\* heading line and the text of its section are one fragment.
C22_FragmentIsHeadingWithSection ==
    Returned =>
        \A k \in 2..4 :
            LET pieces == split_by_heading(content, k)
            IN  /\ Len(pieces) = 1 + Cardinality(HeadingLines(content, k))
                /\ \A i \in 2..Len(pieces) : starts_with_heading(pieces[i], k)

\* C30: in the output of the grouping at a heading level no chunk ends with
\* a heading line whose section text begins the next chunk.
C30_HeadingStaysWithItsSection ==
    Returned =>
        \A i \in 1..(Len(final_chunks) - 1) :
            \A k \in 2..4 :
                ~(/\ final_chunks[i].stage = k
                  /\ IsHeadingLine(LastLine(final_chunks[i].text), k)
                  /\ final_chunks[i + 1].text # <<>>
                  /\ \A j \in 2..4 : final_chunks[i + 1].text[1] # <<-j>>)

\* ------------------------------------------------ refinement: claims
\* the chunks of the pass at level 2, before any refinement
FirstPass == create_chunks(split_by_heading(content, 2), 2, 2, thr)

\* C23: the refinement ends for every input with a result; a chunk of the
\* level-2 pass of at most max_words words is passed through unchanged, a
\* larger one is split again at level 3, then 4, then at its paragraphs, so
\* that only a chunk of the paragraph pass is returned with more than
\* max_words words: the result of that pass is final.
C23_RefinementEndsAtParagraphs ==
    /\ Returned =>
           /\ \A i \in DOMAIN final_chunks :
                  /\ final_chunks[i].stage \in {2, 3, 4, 0}
                  /\ final_chunks[i].stage # 0 =>
                         word_count(final_chunks[i].text) <= thr.max_words
           /\ SelectSeq(final_chunks, LAMBDA c : c.stage = 2)
                  = SelectSeq(FirstPass, LAMBDA c : word_count(c.text) <= thr.max_words)
           /\ (\A i \in DOMAIN FirstPass : word_count(FirstPass[i].text) <= thr.max_words)
                  => final_chunks = FirstPass

\* one paragraph of more than max_words words is returned whole, beside a
\* chunk of the level-2 pass that was passed through
C23_Witness ==
    /\ Returned
    /\ \E i \in DOMAIN final_chunks :
           /\ final_chunks[i].stage = 0
           /\ word_count(final_chunks[i].text) > thr.max_words
           /\ Len(split_paragraphs(final_chunks[i].text)) = 1
    /\ \E i \in DOMAIN final_chunks :
           /\ final_chunks[i].stage = 2
           /\ word_count(final_chunks[i].text) = thr.max_words

\* ------------------------------------------- the list of the gate: claims
\* C24: the list of cross-platform urls is empty when a process starts and
\* only grows while it runs: no step takes a url out of it, a call for a url
\* that is not cross-platform leaves it as it is, and it gains a url only
\* when a call goes through the gate with a url it does not hold, so it
\* never holds a url twice.
C24_ListOnlyGrowsWithoutDuplicates ==
    /\ cross_platform_lps_dont_duplicate = <<>>
    /\ [](\A i, j \in DOMAIN cross_platform_lps_dont_duplicate :
              cross_platform_lps_dont_duplicate[i] = cross_platform_lps_dont_duplicate[j]
                  => i = j)
    /\ [][/\ run' # run => cross_platform_lps_dont_duplicate' = <<>>
          /\ run' = run =>
                 \/ cross_platform_lps_dont_duplicate' = cross_platform_lps_dont_duplicate
                 \/ /\ Len(calls') = Len(calls) + 1
                    /\ ThroughGate(Last(calls'))
                    /\ ~InList(cross_platform_lps_dont_duplicate, Last(calls').url)
                    /\ cross_platform_lps_dont_duplicate'
                           = Append(cross_platform_lps_dont_duplicate, Last(calls').url)
          /\ (Len(calls') = Len(calls) + 1 /\ ~ThroughGate(Last(calls')))
                 => cross_platform_lps_dont_duplicate' = cross_platform_lps_dont_duplicate]_vars

\* both cross-platform urls are in the list, and the latest call, for a url
\* that is not cross-platform, left it so
C24_Witness ==
    /\ Len(cross_platform_lps_dont_duplicate) = 2
    /\ calls # <<>>
    /\ Last(calls).run = run
    /\ ~ThroughGate(Last(calls))

\* ------------------------------------------------- pipeline: claims
\* where the chunk id that begins at fragment j of an id field ends
EndOfId(field, j) ==
    LET S == {k \in (j + 1)..Len(field) : field[k] = ", "}
    IN  IF S = {} THEN Len(field) ELSE Min(S) - 1

\* the uuids of the chunk ids listed in the rows of a ledger
IdsIn(file) ==
    UNION {{SubSeq(file[i][5], j + 1, EndOfId(file[i][5], j)) :
                j \in {j \in DOMAIN file[i][5] : file[i][5][j] = "chunk_"}} :
           i \in 2..Len(file)}

RECURSIVE Flat(_, _)
\* the snippets of the sources from the i-th on whose requests succeed, each
\* with its url, in order
Flat(plan, i) ==
    IF i > Len(plan) THEN <<>>
    ELSE (IF plan[i].fetch # "ok" THEN <<>>
          ELSE [j \in DOMAIN plan[i].snippets |->
                   [url |-> plan[i].url, content |-> plan[i].snippets[j]]])
         \o Flat(plan, i + 1)

\* the sources begun so far
Begun == SubSeq(pipe.all, 1, Len(pipe.all) - Len(pipe.plan))

\* C25: the sources are worked on one after the other and their chunks one
\* after the other: the chunks recorded so far are the snippets of the
\* sources in order, when a source begins all chunks of the sources before
\* it are persisted and in the ledger, and a chunk is persisted before its
\* ledger update; in every reachable state every chunk id listed in the
\* ledger has a chunk file.
C25_PersistedBeforeLedgered ==
    /\ IdsIn(details_file) \subseteq yaml_dir
    /\ Len(recorded) <= Len(Flat(pipe.all, 1))
    /\ \A i \in DOMAIN recorded :
           /\ recorded[i].url = Flat(pipe.all, 1)[i].url
           /\ recorded[i].chunk.content = Flat(pipe.all, 1)[i].content
           /\ recorded[i].chunk.uuid \in yaml_dir
           /\ recorded[i].chunk.uuid \in IdsIn(details_file)
    /\ pipe.pc \in {"source", "done", "aborted"} =>
           /\ Len(recorded) = Len(Flat(Begun, 1))
           /\ Cardinality(yaml_dir) = Len(recorded)
    /\ pipe.pc = "record" =>
           /\ pipe.chunk.uuid \in yaml_dir
           /\ pipe.chunk.uuid \notin IdsIn(details_file)

\* the second chunk of the second source has its chunk file and is not yet
\* in the ledger, which holds the chunks before it
C25_Witness ==
    /\ pipe.pc = "record"
    /\ Len(Begun) = 2
    /\ Len(recorded) >= 2
    /\ Len(pipe.snippets) = 1
    /\ IdsIn(details_file) # {}
    /\ pipe.chunk.uuid \in yaml_dir \ IdsIn(details_file)

\* --------------------------------------------- failed requests: claims
\* C26: a request that fails for a source (for its navigation page, in the
\* validity check of its markdown url, or in the fetch of the markdown that
\* follows) never ends the run: no chunk of that source is persisted or
\* recorded, and the run goes on with the next source.
C26_FailedFetchSkipsSource ==
    /\ pipe.pc # "aborted"
    /\ \A i \in DOMAIN recorded :
           /\ recorded[i].url = Flat(pipe.all, 1)[i].url
           /\ recorded[i].chunk.content = Flat(pipe.all, 1)[i].content
    /\ pipe.pc = "done" =>
           /\ Len(recorded) = Len(Flat(pipe.all, 1))
           /\ Cardinality(yaml_dir) = Len(recorded)

\* ---------------------------------------------- running count: claims
\* C27: at every flush and at the final emit or merge the running word
\* count of the current chunk is the number of words of its text: every
\* chunk is emitted with a count equal to the words it holds, also a chunk
\* restarted from an overflowing piece to which more pieces were appended.
C27_RunningCountIsWordCount ==
    Returned =>
        \A i \in DOMAIN final_chunks :
            final_chunks[i].count = word_count(final_chunks[i].text)

\* ------------------------------------------------ ledger rows: claims
\* the number of chunk ids an id field lists
IdCount(field) == Cardinality({j \in DOMAIN field : field[j] = "chunk_"})

\* C28: after any sequence of record calls, one after the other, on a
\* ledger that main started with the header row alone, the ledger holds at
\* most one row for a url, and the Number of Chunks of each row is the
\* number of ids in its Chunk IDs.
C28_OneRowPerUrlCountMatchesIds ==
    run >= 1 =>
        /\ details_file[1] = Header
        /\ \A i, j \in 2..Len(details_file) :
               details_file[i][1] = details_file[j][1] => i = j
        /\ \A i \in 2..Len(details_file) :
               /\ int(details_file[i][4]) = IdCount(details_file[i][5])
               /\ IdCount(details_file[i][5]) >= 1

\* a row of two ids, the same chunk recorded twice, beside the row of
\* another url
C28_Witness ==
    /\ run >= 1
    /\ Len(details_file) = 3
    /\ \E i \in 2..Len(details_file) : IdCount(details_file[i][5]) = 2
    /\ RecordedAgain

\* ------------------------------------------------ first line: claims
\* the row that the call recorded[k] writes for a url the ledger lacks
NewRowOf(k) ==
    addNewRow(recorded[k].url, strftime(recorded[k].day),
              chunk_words_of(recorded[k].chunk), chunk_id_of(recorded[k].chunk))

\* the lines of a file that start with a url, the first line included
LinesOf(file, url) == {i \in 1..Len(file) : file[i][1] = <<url>>}

\* C29: a record call takes the first line of the ledger file for the
\* header and never updates it.  From a file of the header alone the header
\* stays first and unchanged after any sequence of record calls; from an
\* empty file the row that the first record call writes is taken for the
\* header by the later calls, so that recording its url again adds a second
\* row for the url and leaves the first as it was written.
C29_FirstLineIsKeptAsHeader ==
    /\ [](recorded # <<>> =>
            /\ details_file # <<>>
            /\ details_file[1] \in {Header, NewRowOf(1)}
            /\ details_file[1] = NewRowOf(1) =>
                   \A k \in 2..Len(recorded) :
                       recorded[k].url = recorded[1].url =>
                           Cardinality(LinesOf(details_file, recorded[1].url)) = 2)
    /\ [][/\ details_file = <<Header>> => details_file'[1] = Header
          /\ details_file # <<>> => details_file'[1] = details_file[1]]_vars

\* from an empty file a url was recorded twice: the file holds the row of
\* the first call as its first line and a second row for the url behind it
C29_Witness ==
    /\ Len(recorded) >= 2
    /\ recorded[2].url = recorded[1].url
    /\ details_file[1] = NewRowOf(1)
    /\ LinesOf(details_file, recorded[1].url) = {1, 2}

====
